---------------------------- MODULE Spec2Model ----------------------------
(***************************************************************************)
(* Model of the Go rules engine of src/board.py (class GoBoard).           *)
(*                                                                         *)
(* The state is one GoBoard object: its grid, the side to move, the ko     *)
(* point, the move history, the capture totals and the pass counter.       *)
(* A caller (the driver of src/main.py, the UI or a test) calls            *)
(* play_move(x, y) and reset(); what the caller passed and what it got     *)
(* back are kept in arg / ret, and the object as it was before the call    *)
(* in prev.                                                                *)
(***************************************************************************)
EXTENDS Integers, Sequences, FiniteSets

(***************************************************************************)
(* Bounds of the exploration.                                              *)
(***************************************************************************)
\* side of the board (the program takes 9, 13 or 19; the rules are the same)
Size == 3
\* number of completed moves a caller plays freely from a fresh board
MaxFree == 2
\* number of completed moves a caller plays freely after an opening
MaxExtra == 2

(***************************************************************************)
(* GoBoard class constants.                                                *)
(***************************************************************************)
EMPTY == 0
BLACK == 1
WHITE == 2

\* Python's None (ko_point, and arg before any call)
None == <<>>
\* the pass sentinel understood by play_move
PASS == <<-1, -1>>

Coords == (0 .. Size - 1) \X (0 .. Size - 1)

Opponent(color) == IF color = BLACK THEN WHITE ELSE BLACK

(***************************************************************************)
(* Queries on a grid bd (self.board or a numpy copy of it).                *)
(***************************************************************************)
is_on_board(x, y) == 0 <= x /\ x < Size /\ 0 <= y /\ y < Size

\* up, right, down, left, in this order, the off-board ones left out
get_adjacent_points(x, y) ==
    LET cand == << <<x, y + 1>>, <<x + 1, y>>, <<x, y - 1>>, <<x - 1, y>> >>
        on(p) == is_on_board(p[1], p[2])
    IN  SelectSeq(cand, on)

\* the inner for-loop of both flood fills: every neighbour in adj[i..] of
\* colour `color` not yet seen is added to seen and pushed on the frontier
RECURSIVE push_same(_, _, _, _, _, _)
push_same(bd, color, seen, frontier, adj, i) ==
    IF i > Len(adj) THEN [seen |-> seen, frontier |-> frontier]
    ELSE IF bd[adj[i]] = color /\ adj[i] \notin seen
         THEN push_same(bd, color, seen \cup {adj[i]},
                        Append(frontier, adj[i]), adj, i + 1)
         ELSE push_same(bd, color, seen, frontier, adj, i + 1)

\* while frontier: pop the last stone, push its unseen same-colour neighbours
RECURSIVE group_loop(_, _, _, _)
group_loop(bd, color, group, frontier) ==
    IF frontier = <<>> THEN group
    ELSE LET stone == frontier[Len(frontier)]
             rest  == SubSeq(frontier, 1, Len(frontier) - 1)
             r     == push_same(bd, color, group, rest,
                                get_adjacent_points(stone[1], stone[2]), 1)
         IN  group_loop(bd, color, r.seen, r.frontier)

\* get_group that stops at the stones next to (x, y)
get_group_one_step(bd, x, y) ==
    IF ~is_on_board(x, y) THEN {}
    ELSE IF bd[<<x, y>>] = EMPTY THEN {}
    ELSE push_same(bd, bd[<<x, y>>], {<<x, y>>}, <<>>,
                   get_adjacent_points(x, y), 1).seen

get_group(bd, x, y) ==
    IF ~is_on_board(x, y) THEN {}
    ELSE IF bd[<<x, y>>] = EMPTY THEN {}
    ELSE group_loop(bd, bd[<<x, y>>], {<<x, y>>}, << <<x, y>> >>)

get_liberties(bd, x, y) ==
    IF ~is_on_board(x, y) THEN {}
    ELSE IF bd[<<x, y>>] = EMPTY THEN {}
    ELSE LET group  == get_group(bd, x, y)
             adj(s) == get_adjacent_points(s[1], s[2])
         IN  UNION {{adj(s)[i] : i \in {j \in 1 .. Len(adj(s)) :
                                            bd[adj(s)[j]] = EMPTY}} :
                    s \in group}

count_liberties(bd, x, y) == Cardinality(get_liberties(bd, x, y))

\* remove_group clearing only the stone at (x, y), not its whole group
remove_group_one_stone(bd, x, y) ==
    [board   |-> [bd EXCEPT ![<<x, y>>] = EMPTY],
     removed |-> 1]

\* the grid after remove_group; the number removed is the size of the group
remove_group(bd, x, y) ==
    LET group == get_group(bd, x, y)
    IN  [board   |-> [p \in Coords |-> IF p \in group THEN EMPTY ELSE bd[p]],
         removed |-> Cardinality(group)]

\* the while-loop of _has_liberties_in_copy: returns as soon as a popped
\* stone has an empty neighbour
RECURSIVE has_liberties_loop(_, _, _, _)
has_liberties_loop(bd, color, visited, frontier) ==
    IF frontier = <<>> THEN FALSE
    ELSE LET stone == frontier[Len(frontier)]
             rest  == SubSeq(frontier, 1, Len(frontier) - 1)
             adj   == get_adjacent_points(stone[1], stone[2])
             r     == push_same(bd, color, visited, rest, adj, 1)
         IN  IF \E i \in 1 .. Len(adj) : bd[adj[i]] = EMPTY THEN TRUE
             ELSE has_liberties_loop(bd, color, r.seen, r.frontier)

has_liberties_in_copy(board_copy, x, y) ==
    IF board_copy[<<x, y>>] = EMPTY THEN FALSE
    ELSE has_liberties_loop(board_copy, board_copy[<<x, y>>],
                            {<<x, y>>}, << <<x, y>> >>)

\* would_be_suicide that finds no move to be suicide
would_be_suicide_never(bd, x, y, color) == FALSE

\* would_be_suicide without the capture check: no liberty is suicide
would_be_suicide_no_capture(bd, x, y, color) ==
    ~has_liberties_in_copy([bd EXCEPT ![<<x, y>>] = color], x, y)

would_be_suicide(bd, x, y, color) ==
    LET board_copy == [bd EXCEPT ![<<x, y>>] = color]
        opponent   == Opponent(color)
        adj        == get_adjacent_points(x, y)
    IN  IF has_liberties_in_copy(board_copy, x, y) THEN FALSE
        ELSE IF \E i \in 1 .. Len(adj) :
                   /\ board_copy[adj[i]] = opponent
                   /\ ~has_liberties_in_copy(board_copy, adj[i][1], adj[i][2])
             THEN FALSE
             ELSE TRUE

(***************************************************************************)
(* Operations on a GoBoard object b, a record of its fields.               *)
(***************************************************************************)
NewBoard ==
    [board           |-> [p \in Coords |-> EMPTY],
     current_player  |-> BLACK,
     ko_point        |-> None,
     move_history    |-> <<>>,
     captured_stones |-> [c \in {BLACK, WHITE} |-> 0],
     pass_count      |-> 0]

\* is_ko that never reports a ko
is_ko_never(b, x, y) == FALSE

is_ko(b, x, y) == b.ko_point = <<x, y>>

is_valid_move(b, x, y) ==
    IF ~is_on_board(x, y) THEN FALSE
    ELSE IF b.board[<<x, y>>] # EMPTY THEN FALSE
    ELSE IF is_ko(b, x, y) THEN FALSE
    ELSE IF would_be_suicide(b.board, x, y, b.current_player) THEN FALSE
    ELSE TRUE

\* the capture loop of play_move over the neighbours adj[i..] of the stone
\* just placed; bd is the grid as mutated so far
RECURSIVE capture_loop(_, _, _, _, _, _)
capture_loop(bd, opponent, adj, i, captured_stones, potential_ko_point) ==
    IF i > Len(adj)
    THEN [board |-> bd, captured_stones |-> captured_stones,
          potential_ko_point |-> potential_ko_point]
    ELSE LET n == adj[i]
         IN  IF bd[n] = opponent /\ count_liberties(bd, n[1], n[2]) = 0
             THEN LET group == get_group(bd, n[1], n[2])
                      pkp   == IF Cardinality(group) = 1
                               THEN CHOOSE g \in group : TRUE
                               ELSE potential_ko_point
                      rm    == remove_group(bd, n[1], n[2])
                  IN  capture_loop(rm.board, opponent, adj, i + 1,
                                   captured_stones + rm.removed, pkp)
             ELSE capture_loop(bd, opponent, adj, i + 1,
                               captured_stones, potential_ko_point)

\* ko detection that never leaves a ko point
ko_detection_never(bd, x, y, captured_stones, potential_ko_point) == None

\* ko detection without the liberty test on the stone just placed
ko_detection_any_single(bd, x, y, captured_stones, potential_ko_point) ==
    IF captured_stones = 1 /\ potential_ko_point # None
    THEN potential_ko_point
    ELSE None

\* "Ko rule detection": the ko point left by a placement at (x, y)
ko_detection(bd, x, y, captured_stones, potential_ko_point) ==
    IF captured_stones = 1 /\ potential_ko_point # None
    THEN IF count_liberties(bd, x, y) = 1 THEN potential_ko_point ELSE None
    ELSE None

\* a pass that leaves ko_point as it was
pass_move_keeps_ko(b) ==
    [b EXCEPT !.pass_count     = @ + 1,
              !.move_history   = Append(@, PASS),
              !.current_player = Opponent(@)]

\* a pass that does not hand the turn over
pass_move_no_flip(b) ==
    [b EXCEPT !.pass_count     = @ + 1,
              !.move_history   = Append(@, PASS),
              !.ko_point       = None]

\* a pass that sets pass_count to 1 instead of adding 1
pass_move_sets_one(b) ==
    [b EXCEPT !.pass_count     = 1,
              !.move_history   = Append(@, PASS),
              !.current_player = Opponent(@),
              !.ko_point       = None]

\* the pass branch of play_move
pass_move(b) ==
    [b EXCEPT !.pass_count     = @ + 1,
              !.move_history   = Append(@, PASS),
              !.current_player = Opponent(@),
              !.ko_point       = None]

\* a placement that writes ko_point only when it finds a new ko
place_stone_stale_ko(b, x, y) ==
    LET opponent == Opponent(b.current_player)
        placed   == [b.board EXCEPT ![<<x, y>>] = b.current_player]
        cap      == capture_loop(placed, opponent,
                                 get_adjacent_points(x, y), 1, 0, None)
        ko       == ko_detection(cap.board, x, y, cap.captured_stones,
                                 cap.potential_ko_point)
    IN  [board           |-> cap.board,
         current_player  |-> opponent,
         ko_point        |-> IF ko = None THEN b.ko_point ELSE ko,
         move_history    |-> Append(b.move_history, <<x, y>>),
         captured_stones |-> [b.captured_stones EXCEPT
                                 ![b.current_player] = @ + cap.captured_stones],
         pass_count      |-> b.pass_count]

\* a placement that adds the captured stones to the tally of the colour
\* that lost them
place_stone_credits_loser(b, x, y) ==
    LET opponent == Opponent(b.current_player)
        placed   == [b.board EXCEPT ![<<x, y>>] = b.current_player]
        cap      == capture_loop(placed, opponent,
                                 get_adjacent_points(x, y), 1, 0, None)
    IN  [board           |-> cap.board,
         current_player  |-> opponent,
         ko_point        |-> ko_detection(cap.board, x, y, cap.captured_stones,
                                          cap.potential_ko_point),
         move_history    |-> Append(b.move_history, <<x, y>>),
         captured_stones |-> [b.captured_stones EXCEPT
                                 ![opponent] = @ + cap.captured_stones],
         pass_count      |-> b.pass_count]

\* play_move from "Place the stone" on; b is the object after the reset of
\* pass_count and (x, y) has passed is_valid_move
place_stone(b, x, y) ==
    LET opponent == Opponent(b.current_player)
        placed   == [b.board EXCEPT ![<<x, y>>] = b.current_player]
        cap      == capture_loop(placed, opponent,
                                 get_adjacent_points(x, y), 1, 0, None)
    IN  [board           |-> cap.board,
         current_player  |-> opponent,
         ko_point        |-> ko_detection(cap.board, x, y, cap.captured_stones,
                                          cap.potential_ko_point),
         move_history    |-> Append(b.move_history, <<x, y>>),
         captured_stones |-> [b.captured_stones EXCEPT
                                 ![b.current_player] = @ + cap.captured_stones],
         pass_count      |-> b.pass_count]

\* play_move that tests only that the point is on the board and empty
play_move_occupied_only(b, x, y) ==
    IF x = -1 /\ y = -1
    THEN [ret |-> TRUE, b |-> pass_move(b)]
    ELSE LET b1 == [b EXCEPT !.pass_count = 0]
         IN  IF ~is_on_board(x, y) \/ b1.board[<<x, y>>] # EMPTY
             THEN [ret |-> FALSE, b |-> b1]
             ELSE [ret |-> TRUE, b |-> place_stone(b1, x, y)]

\* play_move that records the move before it tests it
play_move_logs_rejected(b, x, y) ==
    IF x = -1 /\ y = -1
    THEN [ret |-> TRUE, b |-> pass_move(b)]
    ELSE LET b1 == [b EXCEPT !.pass_count = 0]
         IN  IF ~is_valid_move(b1, x, y)
             THEN [ret |-> FALSE,
                   b   |-> [b1 EXCEPT !.move_history = Append(@, <<x, y>>)]]
             ELSE [ret |-> TRUE, b |-> place_stone(b1, x, y)]

\* play_move that leaves pass_count alone when a stone is placed
play_move_keeps_pass_count(b, x, y) ==
    IF x = -1 /\ y = -1
    THEN [ret |-> TRUE, b |-> pass_move(b)]
    ELSE IF ~is_valid_move(b, x, y)
         THEN [ret |-> FALSE, b |-> b]
         ELSE [ret |-> TRUE, b |-> place_stone(b, x, y)]

\* play_move: the value returned and the object afterwards
play_move(b, x, y) ==
    IF x = -1 /\ y = -1
    THEN [ret |-> TRUE, b |-> pass_move(b)]
    ELSE LET b1 == [b EXCEPT !.pass_count = 0]
         IN  IF ~is_valid_move(b1, x, y)
             THEN [ret |-> FALSE, b |-> b1]
             ELSE [ret |-> TRUE, b |-> place_stone(b1, x, y)]

\* count_stones: stones of each colour on the grid
count_stones(bd) ==
    [c \in {BLACK, WHITE} |-> Cardinality({p \in Coords : bd[p] = c})]

\* the for-loop over the neighbours adj[i..] of a popped empty point:
\* unvisited empty neighbours are pushed, stones add their colour to the border
RECURSIVE region_visit(_, _, _, _, _, _)
region_visit(bd, visited, frontier, border_colors, adj, i) ==
    IF i > Len(adj)
    THEN [frontier |-> frontier, border_colors |-> border_colors]
    ELSE IF bd[adj[i]] = EMPTY /\ adj[i] \notin visited
         THEN region_visit(bd, visited, Append(frontier, adj[i]),
                           border_colors, adj, i + 1)
         ELSE IF bd[adj[i]] # EMPTY
              THEN region_visit(bd, visited, frontier,
                                border_colors \cup {bd[adj[i]]}, adj, i + 1)
              ELSE region_visit(bd, visited, frontier, border_colors,
                                adj, i + 1)

\* the while-loop of count_territory that fills one empty region
RECURSIVE region_loop(_, _, _, _, _)
region_loop(bd, visited, frontier, region, border_colors) ==
    IF frontier = <<>>
    THEN [visited |-> visited, region |-> region,
          border_colors |-> border_colors]
    ELSE LET p    == frontier[Len(frontier)]
             rest == SubSeq(frontier, 1, Len(frontier) - 1)
         IN  IF p \in visited
             THEN region_loop(bd, visited, rest, region, border_colors)
             ELSE LET v == visited \cup {p}
                      r == region_visit(bd, v, rest, border_colors,
                                        get_adjacent_points(p[1], p[2]), 1)
                  IN  region_loop(bd, v, r.frontier, region \cup {p},
                                  r.border_colors)

\* the scan of count_territory adding 1 for a region instead of its size
RECURSIVE territory_scan_one_per_region(_, _, _, _)
territory_scan_one_per_region(bd, k, visited, territory) ==
    IF k >= Size * Size THEN territory
    ELSE LET p == <<k \div Size, k % Size>>
         IN  IF bd[p] = EMPTY /\ p \notin visited
             THEN LET r == region_loop(bd, visited, <<p>>, {}, {})
                  IN  IF Cardinality(r.border_colors) = 1
                      THEN LET color == CHOOSE c \in r.border_colors : TRUE
                           IN  territory_scan_one_per_region(bd, k + 1,
                                   r.visited,
                                   [territory EXCEPT ![color] = @ + 1])
                      ELSE territory_scan_one_per_region(bd, k + 1,
                                   r.visited, territory)
             ELSE territory_scan_one_per_region(bd, k + 1, visited, territory)

\* the row-major scan of count_territory from the k-th cell (k = x*size + y)
RECURSIVE territory_scan(_, _, _, _)
territory_scan(bd, k, visited, territory) ==
    IF k >= Size * Size THEN territory
    ELSE LET p == <<k \div Size, k % Size>>
         IN  IF bd[p] = EMPTY /\ p \notin visited
             THEN LET r == region_loop(bd, visited, <<p>>, {}, {})
                  IN  IF Cardinality(r.border_colors) = 1
                      THEN LET color == CHOOSE c \in r.border_colors : TRUE
                           IN  territory_scan(bd, k + 1, r.visited,
                                   [territory EXCEPT
                                       ![color] = @ + Cardinality(r.region)])
                      ELSE territory_scan(bd, k + 1, r.visited, territory)
             ELSE territory_scan(bd, k + 1, visited, territory)

\* count_territory crediting one point for a region, whatever its size
count_territory_one_per_region(bd) ==
    territory_scan_one_per_region(bd, 0, {}, [c \in {BLACK, WHITE} |-> 0])

count_territory(bd) ==
    territory_scan(bd, 0, {}, [c \in {BLACK, WHITE} |-> 0])

\* is_game_over that needs a third pass
is_game_over_three_passes(b) ==
    b.pass_count > 2 \/ Len(b.move_history) > (Size * Size) \div 2

\* is_game_over without the dominance criterion
is_game_over_no_dominance(b) ==
    b.pass_count >= 2 \/ Len(b.move_history) > (Size * Size) \div 2

\* is_game_over whose dominance criterion has no guard on the number of
\* stones and compares with >=
is_game_over_unguarded_dominance(b) ==
    LET stone_count  == count_stones(b.board)
        black_count  == stone_count[BLACK]
        white_count  == stone_count[WHITE]
        total_stones == black_count + white_count
        territory    == count_territory(b.board)
        black_dom    == 5 * black_count >= 3 * total_stones
        white_dom    == 5 * white_count >= 3 * total_stones
    IN  \/ b.pass_count >= 2
        \/ black_dom /\ 2 * territory[BLACK] >= 3 * territory[WHITE]
        \/ white_dom /\ 2 * territory[WHITE] >= 3 * territory[BLACK]
        \/ Len(b.move_history) > (Size * Size) \div 2

\* is_game_over without the limit on the number of moves
is_game_over_no_move_limit(b) ==
    LET stone_count  == count_stones(b.board)
        black_count  == stone_count[BLACK]
        white_count  == stone_count[WHITE]
        total_stones == black_count + white_count
        territory    == count_territory(b.board)
        black_dom    == 5 * black_count > 3 * total_stones
        white_dom    == 5 * white_count > 3 * total_stones
    IN  \/ b.pass_count >= 2
        \/ /\ 3 * total_stones >= Size * Size
           /\ black_count > 0 /\ white_count > 0
           /\ \/ black_dom /\ 2 * territory[BLACK] > 3 * territory[WHITE]
              \/ white_dom /\ 2 * territory[WHITE] > 3 * territory[BLACK]

\* is_game_over; the float comparisons black_count / total_stones > 0.60 and
\* black_territory > white_territory * 1.5 are exact on these integers and
\* are written as 5 * black_count > 3 * total_stones and
\* 2 * black_territory > 3 * white_territory
is_game_over(b) ==
    LET stone_count  == count_stones(b.board)
        black_count  == stone_count[BLACK]
        white_count  == stone_count[WHITE]
        total_stones == black_count + white_count
        territory    == count_territory(b.board)
        black_dom    == 5 * black_count > 3 * total_stones
        white_dom    == 5 * white_count > 3 * total_stones
        max_moves    == (Size * Size) \div 2
    IN  IF b.pass_count >= 2 THEN TRUE
        ELSE IF /\ 3 * total_stones >= Size * Size
                /\ black_count > 0 /\ white_count > 0
                /\ black_dom \/ white_dom
                /\ \/ black_dom /\ 2 * territory[BLACK] > 3 * territory[WHITE]
                   \/ white_dom /\ 2 * territory[WHITE] > 3 * territory[BLACK]
             THEN TRUE
        ELSE IF Len(b.move_history) > max_moves THEN TRUE
        ELSE FALSE

\* get_valid_moves scanning y in the outer loop and x in the inner one
RECURSIVE valid_moves_scan_by_column(_, _, _)
valid_moves_scan_by_column(b, lo, hi) ==
    IF lo > hi THEN <<>>
    ELSE IF lo = hi
    THEN IF is_valid_move(b, lo % Size, lo \div Size)
         THEN << <<lo % Size, lo \div Size>> >>
         ELSE <<>>
    ELSE valid_moves_scan_by_column(b, lo, (lo + hi) \div 2)
         \o valid_moves_scan_by_column(b, (lo + hi) \div 2 + 1, hi)

get_valid_moves_by_column(b) ==
    valid_moves_scan_by_column(b, 0, Size * Size - 1)

\* the two for-loops of get_valid_moves over the cells lo .. hi, the cell k
\* being (x, y) with k = x*size + y: the moves of the first half of the
\* cells, then those of the second half
RECURSIVE valid_moves_scan(_, _, _)
valid_moves_scan(b, lo, hi) ==
    IF lo > hi THEN <<>>
    ELSE IF lo = hi
    THEN IF is_valid_move(b, lo \div Size, lo % Size)
         THEN << <<lo \div Size, lo % Size>> >>
         ELSE <<>>
    ELSE valid_moves_scan(b, lo, (lo + hi) \div 2)
         \o valid_moves_scan(b, (lo + hi) \div 2 + 1, hi)

get_valid_moves(b) == valid_moves_scan(b, 0, Size * Size - 1)

\* komi is kept in half points: komi2 = 2 * komi, so the default 6.5 is 13,
\* and both scores are kept doubled
DefaultKomi2 == 13

\* get_score with komi added to both scores
get_score_komi_to_both(b, komi2) ==
    LET stone_count == count_stones(b.board)
        territory   == count_territory(b.board)
    IN  [black |-> 2 * (stone_count[BLACK] + territory[BLACK]) + komi2,
         white |-> 2 * (stone_count[WHITE] + territory[WHITE]) + komi2]

\* get_score: twice the black score and twice the white score
get_score(b, komi2) ==
    LET stone_count == count_stones(b.board)
        territory   == count_territory(b.board)
    IN  [black |-> 2 * (stone_count[BLACK] + territory[BLACK]),
         white |-> 2 * (stone_count[WHITE] + territory[WHITE]) + komi2]

get_winner(b, komi2) ==
    LET score == get_score(b, komi2)
    IN  IF score.black > score.white THEN BLACK
        ELSE IF score.white > score.black THEN WHITE
        ELSE EMPTY

\* A komi that is not a multiple of one half is kept as the float it is:
\* int + num * 2^-exp with 0 <= num < 2^exp, num odd unless it is 0, so
\* 6.5 is [int |-> 6, num |-> 1, exp |-> 1].  The integer totals are exact
\* in a float, and their sum with komi is rounded to MantissaBits
\* significant bits, ties to the even neighbour.
MantissaBits == 53

DefaultKomi == [int |-> 6, num |-> 1, exp |-> 1]

RECURSIVE bit_length(_)
bit_length(n) == IF n = 0 THEN 0 ELSE 1 + bit_length(n \div 2)

\* the bits of num that lie below the last place of the sum, as (kept, lost)
split_bits(num, shift) == [kept |-> num \div 2 ^ shift, lost |-> num % 2 ^ shift, half |-> 2 ^ (shift - 1)]

\* round to nearest, ties to even
round_half_even(s) == IF s.lost > s.half \/ (s.lost = s.half /\ s.kept % 2 = 1) THEN s.kept + 1 ELSE s.kept

\* the float nearest to whole + num * 2^-exp, whole >= 1, with fraction_bits
\* places after the point; a num below 2^11 that lies more than 11 places
\* below the last one is less than half a unit there
rounded_sum(whole, num, exp, fraction_bits) ==
    IF exp <= fraction_bits THEN [int |-> whole, num |-> num, exp |-> exp]
    ELSE IF exp - fraction_bits > 11 THEN [int |-> whole, num |-> 0, exp |-> 0]
    ELSE [int |-> whole, num |-> round_half_even(split_bits(num, exp - fraction_bits)), exp |-> fraction_bits]

\* n + komi with the fraction of komi dropped
float_add_floor(n, komi) == [int |-> n + komi.int, num |-> 0, exp |-> 0]

\* n + komi for an integer n >= 0 and a float komi >= 0
float_add(n, komi) ==
    IF komi.num = 0 THEN [int |-> n + komi.int, num |-> 0, exp |-> 0]
    ELSE IF n + komi.int = 0 THEN komi
    ELSE rounded_sum(n + komi.int, komi.num, komi.exp, MantissaBits - bit_length(n + komi.int))

\* black_score, white_score of get_score from the two counts
get_score_from(stone_count, territory, komi) == [black |-> stone_count[BLACK] + territory[BLACK], white |-> float_add(stone_count[WHITE] + territory[WHITE], komi)]

\* the comparisons of get_winner: an integer against a float
get_winner_from(score) ==
    IF score.black > score.white.int THEN BLACK
    ELSE IF score.white.int > score.black \/ score.white.num > 0 THEN WHITE
    ELSE EMPTY

\* get_score and get_winner for a float komi
get_score_at(b, komi) == get_score_from(count_stones(b.board), count_territory(b.board), komi)

get_winner_at(b, komi) == get_winner_from(get_score_at(b, komi))

\* the sizes __init__ accepts
ValidSizes == {9, 13, 19}

\* what __init__ raises for any other size
ValueError == [raised |-> "ValueError"]

\* __init__ without the test of the size
GoBoard_init_any_size(size) ==
    [size            |-> size,
     board           |-> [p \in (0 .. size - 1) \X (0 .. size - 1) |-> EMPTY],
     current_player  |-> BLACK,
     ko_point        |-> None,
     move_history    |-> <<>>,
     captured_stones |-> [c \in {BLACK, WHITE} |-> 0],
     pass_count      |-> 0]

\* GoBoard(size): the exception raised, or the fields of the new object
GoBoard_init(size) ==
    IF size \notin ValidSizes THEN ValueError
    ELSE [size            |-> size,
          board           |-> [p \in (0 .. size - 1) \X (0 .. size - 1)
                                  |-> EMPTY],
          current_player  |-> BLACK,
          ko_point        |-> None,
          move_history    |-> <<>>,
          captured_stones |-> [c \in {BLACK, WHITE} |-> 0],
          pass_count      |-> 0]

(***************************************************************************)
(* RandomAgent (src/agents.py) and the headless game loop.                 *)
(***************************************************************************)
\* the values of the random source that are tried: random.choice(seq)
\* takes the elements of seq at three evenly spaced positions
RandomValues == {0, 1, 2}

\* random.choice(seq) when the random source yields r
random_choice(seq, r) ==
    seq[(r * Len(seq)) \div Cardinality(RandomValues) + 1]

\* RandomAgent._get_move that chooses among the empty points
random_agent_get_move_any_empty(b, color, r) ==
    IF b.current_player # color THEN None
    ELSE LET points == [k \in 1 .. Size * Size |->
                           <<(k - 1) \div Size, (k - 1) % Size>>]
             empty  == SelectSeq(points, LAMBDA p : b.board[p] = EMPTY)
         IN  IF empty = <<>> THEN PASS
             ELSE random_choice(empty, r)

\* RandomAgent._get_move of an agent of colour `color`
random_agent_get_move(b, color, r) ==
    IF b.current_player # color THEN None
    ELSE LET valid_moves == get_valid_moves(b)
         IN  IF valid_moves = <<>> THEN PASS
             ELSE random_choice(valid_moves, r)

\* the colours of black_agent and white_agent
black_agent_color == BLACK
white_agent_color == WHITE

\* the body of "while not board.is_game_over()": the move of the agent
\* that is asked
loop_move(b, r) ==
    IF b.current_player = BLACK
    THEN random_agent_get_move(b, black_agent_color, r)
    ELSE random_agent_get_move(b, white_agent_color, r)

(***************************************************************************)
(* The evaluators (src/evaluators.py).                                     *)
(***************************************************************************)
\* StoneCountEvaluator.evaluate that leaves the captured stones out
stone_count_evaluate_no_captures(player_color, b) ==
    LET stone_count == count_stones(b.board)
    IN  stone_count[player_color] - stone_count[Opponent(player_color)]

\* StoneCountEvaluator.evaluate that adds the captures of the player only
stone_count_evaluate_own_captures(player_color, b) ==
    LET stone_count == count_stones(b.board)
    IN  (stone_count[player_color] + b.captured_stones[player_color])
           - stone_count[Opponent(player_color)]

\* StoneCountEvaluator(player_color).evaluate(board)
stone_count_evaluate(player_color, b) ==
    LET opponent_color  == Opponent(player_color)
        stone_count     == count_stones(b.board)
        player_stones   == stone_count[player_color]
                              + b.captured_stones[player_color]
        opponent_stones == stone_count[opponent_color]
                              + b.captured_stones[opponent_color]
    IN  player_stones - opponent_stones

\* the scan of LibertyCountEvaluator.evaluate that never fills counted_groups
RECURSIVE liberty_scan_per_stone(_, _, _, _, _, _)
liberty_scan_per_stone(b, player_color, k, counted_groups, player_liberties, opponent_liberties) ==
    IF k >= Size * Size
    THEN [player |-> player_liberties, opponent |-> opponent_liberties]
    ELSE LET p == <<k \div Size, k % Size>>
         IN  IF b.board[p] # EMPTY /\ p \notin counted_groups
             THEN LET liberties ==
                         Cardinality(get_liberties(b.board, p[1], p[2]))
                  IN  IF b.board[p] = player_color
                      THEN liberty_scan_per_stone(b, player_color, k + 1,
                               counted_groups,
                               player_liberties + liberties,
                               opponent_liberties)
                      ELSE liberty_scan_per_stone(b, player_color, k + 1,
                               counted_groups,
                               player_liberties,
                               opponent_liberties + liberties)
             ELSE liberty_scan_per_stone(b, player_color, k + 1,
                      counted_groups, player_liberties, opponent_liberties)

\* the row-major scan of LibertyCountEvaluator.evaluate from the k-th cell
RECURSIVE liberty_scan(_, _, _, _, _, _)
liberty_scan(b, player_color, k, counted_groups, player_liberties, opponent_liberties) ==
    IF k >= Size * Size
    THEN [player |-> player_liberties, opponent |-> opponent_liberties]
    ELSE LET p == <<k \div Size, k % Size>>
         IN  IF b.board[p] # EMPTY /\ p \notin counted_groups
             THEN LET group     == get_group(b.board, p[1], p[2])
                      liberties ==
                         Cardinality(get_liberties(b.board, p[1], p[2]))
                  IN  IF b.board[p] = player_color
                      THEN liberty_scan(b, player_color, k + 1,
                               counted_groups \cup group,
                               player_liberties + liberties,
                               opponent_liberties)
                      ELSE liberty_scan(b, player_color, k + 1,
                               counted_groups \cup group,
                               player_liberties,
                               opponent_liberties + liberties)
             ELSE liberty_scan(b, player_color, k + 1, counted_groups,
                               player_liberties, opponent_liberties)

\* LibertyCountEvaluator.evaluate counting a group once for each stone
liberty_count_evaluate_per_stone(player_color, b) ==
    LET opponent_color    == Opponent(player_color)
        scan              == liberty_scan_per_stone(b, player_color, 0, {},
                                                    0, 0)
        player_captures   == b.captured_stones[player_color]
        opponent_captures == b.captured_stones[opponent_color]
    IN  (scan.player - scan.opponent)
           + 3 * (player_captures - opponent_captures)

\* LibertyCountEvaluator(player_color).evaluate(board)
liberty_count_evaluate(player_color, b) ==
    LET opponent_color    == Opponent(player_color)
        scan              == liberty_scan(b, player_color, 0, {}, 0, 0)
        player_captures   == b.captured_stones[player_color]
        opponent_captures == b.captured_stones[opponent_color]
    IN  (scan.player - scan.opponent)
           + 3 * (player_captures - opponent_captures)

\* TerritoryEvaluator(player_color).evaluate(board)
territory_evaluate(player_color, b) ==
    count_territory(b.board)[player_color]
       - count_territory(b.board)[Opponent(player_color)]

(***************************************************************************)
(* What the queries store.  The numpy arrays are a sequence `grids` and an *)
(* array is named by its index; self.board is array 1.                     *)
(***************************************************************************)
\* board_copy = self.board, the array itself and not a copy of it
ndarray_alias(grids, ref) == [grids |-> grids, ref |-> ref]

\* self.board.copy(): a new array with the cells of grids[ref]
ndarray_copy(grids, ref) ==
    [grids |-> Append(grids, grids[ref]), ref |-> Len(grids) + 1]

\* a[x, y] = color for the array a
setitem(a, x, y, color) ==
    [a.grids EXCEPT ![a.ref] = [@ EXCEPT ![<<x, y>>] = color]]

\* the arrays after would_be_suicide(x, y, color): its only store is
\* board_copy[x, y] = color
would_be_suicide_stores(grids, x, y, color) ==
    setitem(ndarray_copy(grids, 1), x, y, color)

\* the object b after b.would_be_suicide(x, y, color)
after_would_be_suicide(b, x, y, color) ==
    [b EXCEPT !.board = would_be_suicide_stores(<<b.board>>, x, y, color)[1]]

\* the object b after b.is_valid_move(x, y): would_be_suicide is called
\* when the first three tests let the point through
after_is_valid_move(b, x, y) ==
    IF ~is_on_board(x, y) THEN b
    ELSE IF b.board[<<x, y>>] # EMPTY THEN b
    ELSE IF is_ko(b, x, y) THEN b
    ELSE after_would_be_suicide(b, x, y, b.current_player)

\* the object b after the two for-loops of get_valid_moves from the cell k on
RECURSIVE after_valid_moves_scan(_, _)
after_valid_moves_scan(b, k) ==
    IF k >= Size * Size THEN b
    ELSE after_valid_moves_scan(after_is_valid_move(b, k \div Size, k % Size),
                                k + 1)

\* the object b after b.get_valid_moves()
after_get_valid_moves(b) == after_valid_moves_scan(b, 0)

\* the queries, by name; the last three are the evaluate of the evaluators
Queries ==
    {"would_be_suicide", "is_valid_move", "get_valid_moves", "is_game_over",
     "count_stones", "count_territory", "get_score", "get_winner",
     "StoneCountEvaluator", "LibertyCountEvaluator", "TerritoryEvaluator"}

\* the object b after the query op with the arguments (x, y) and color:
\* is_game_over, count_stones, count_territory, get_score, get_winner and
\* the evaluators store into local names only
after_query(op, b, x, y, color) ==
    IF op = "would_be_suicide" THEN after_would_be_suicide(b, x, y, color)
    ELSE IF op = "is_valid_move" THEN after_is_valid_move(b, x, y)
    ELSE IF op = "get_valid_moves" THEN after_get_valid_moves(b)
    ELSE b

\* the evaluator classes the agents are built with
StoneCount == "StoneCountEvaluator"
LibertyCount == "LibertyCountEvaluator"

\* self.evaluator.evaluate(board) of an agent
evaluate(agent, b) ==
    IF agent.evaluator = StoneCount
    THEN stone_count_evaluate(agent.color, b)
    ELSE liberty_count_evaluate(agent.color, b)

(***************************************************************************)
(* MinimaxAgent (src/agents.py).  The boards of a search are objects on a  *)
(* heap, a sequence of GoBoard records; a reference is an index into it.   *)
(* The live board is object 1.  What a search function hands back is its   *)
(* score together with the heap it leaves and a summary of the nodes it    *)
(* visited: their number, the greatest depth argument, the greatest depth  *)
(* of a node that was expanded, and whether every node had as depth the    *)
(* number of stack frames above the root call.                             *)
(***************************************************************************)
\* float('inf'): greater than every score of an evaluator
inf == 1000

Max(m, n) == IF m >= n THEN m ELSE n
Min(m, n) == IF m <= n THEN m ELSE n

\* a copy that is the object itself
deepcopy_alias(heap, ref) == [heap |-> heap, ref |-> ref]

\* deepcopy(board): a new object with the fields of heap[ref]
deepcopy(heap, ref) ==
    [heap |-> Append(heap, heap[ref]), ref |-> Len(heap) + 1]

\* the name board_copy is rebound or its frame returns: the objects made
\* after the first n are gone
release(heap, n) == SubSeq(heap, 1, n)

\* the terminal test of _max_value and _min_value with > for >=
is_terminal_one_deeper(agent, b, depth) ==
    is_game_over(b) \/ depth > agent.search_depth

\* board.is_game_over() or depth >= self.search_depth
is_terminal(agent, b, depth) ==
    is_game_over(b) \/ depth >= agent.search_depth

\* return self.evaluator.evaluate(board); accepted and sided are filled in
\* by the caller of the node
leaf_value(agent, heap, ref, depth) ==
    [score    |-> evaluate(agent, heap[ref]),
     tried    |-> <<>>,
     heap     |-> heap,
     nodes    |-> 1,
     deepest  |-> depth,
     expanded |-> 0,
     aligned  |-> depth = Len(heap) - 1,
     accepted |-> TRUE,
     sided    |-> TRUE]

\* a node that is expanded, before its first child: score is best_score,
\* alpha and beta the window the node was called with, cut says that the
\* for-loop has taken its break, tried are the moves played on a copy so far
open_node(heap, depth, best_score, alpha, beta) ==
    [score    |-> best_score,
     alpha    |-> alpha,
     beta     |-> beta,
     cut      |-> FALSE,
     tried    |-> <<>>,
     heap     |-> heap,
     nodes    |-> 1,
     deepest  |-> depth,
     expanded |-> depth,
     aligned  |-> depth = Len(heap) - 1,
     accepted |-> TRUE,
     sided    |-> TRUE]

\* the node s after its child for `move` returned r, with the new best
\* score and window, and cut if the break is taken
with_child(s, r, move, score, alpha, beta, cut) ==
    [score    |-> score,
     alpha    |-> alpha,
     beta     |-> beta,
     cut      |-> cut,
     tried    |-> Append(s.tried, move),
     heap     |-> release(r.heap, Len(s.heap)),
     nodes    |-> s.nodes + r.nodes,
     deepest  |-> Max(s.deepest, r.deepest),
     expanded |-> Max(s.expanded, r.expanded),
     aligned  |-> s.aligned /\ r.aligned,
     accepted |-> s.accepted /\ r.accepted,
     sided    |-> s.sided /\ r.sided]

\* the copy c after c.play_move(x, y) returned r.ret and left the object
\* r.b; ret keeps the value the search drops
played_as(c, r) ==
    [heap |-> [c.heap EXCEPT ![c.ref] = r.b], ref |-> c.ref, ret |-> r.ret]

\* c.play_move(x, y) for the copy c
played(c, x, y) == played_as(c, play_move(c.heap[c.ref], x, y))

\* board_copy = copy.deepcopy(board); board_copy.play_move(x, y): the heap
\* with the copy on it, and the copy's reference
child(heap, ref, x, y) == played(deepcopy(heap, ref), x, y)

\* return self._min_value(board_copy, ...) of a forced pass: the node s
\* with the value r of its only child
passed(s, r) == with_child(s, r, PASS, r.score, s.alpha, s.beta, FALSE)

RECURSIVE max_value(_, _, _, _, _, _)
RECURSIVE min_value(_, _, _, _, _, _)
RECURSIVE max_loop(_, _, _, _, _, _, _)
RECURSIVE min_loop(_, _, _, _, _, _, _)

\* the value r of a node with what the play_move on its board c returned:
\* accepted says that every play_move of the search so far returned True
after_play(c, r) == [r EXCEPT !.accepted = @ /\ c.ret]

\* the value r of a node with whether the colour to move on its board was
\* the one the node moves for: sided says that this held at every node
on_turn(own, r) == [r EXCEPT !.sided = @ /\ own]

\* self._min_value(board_copy, depth, alpha, beta) for the copy c
min_value_of(agent, c, depth, alpha, beta) ==
    after_play(c, min_value(agent, c.heap, c.ref, depth, alpha, beta))

\* self._max_value(board_copy, depth, alpha, beta) for the copy c
max_value_of(agent, c, depth, alpha, beta) ==
    after_play(c, max_value(agent, c.heap, c.ref, depth, alpha, beta))

\* the rest of the loop body of _max_value that breaks one point below beta
max_scored_cuts_below_beta(s, move, r) ==
    with_child(s, r, move,
               Max(s.score, r.score),
               Max(s.alpha, Max(s.score, r.score)),
               s.beta,
               s.beta <= Max(s.alpha, Max(s.score, r.score)) + 1)

\* the rest of the loop body of _max_value once the child returned r:
\* best_score = max(best_score, score); alpha = max(alpha, best_score);
\* if beta <= alpha: break
max_scored(s, move, r) ==
    with_child(s, r, move,
               Max(s.score, r.score),
               Max(s.alpha, Max(s.score, r.score)),
               s.beta,
               s.beta <= Max(s.alpha, Max(s.score, r.score)))

\* the body of the for-loop of _max_value for one move: copy, play, search
max_body(agent, ref, depth, move, s) ==
    max_scored(s, move,
               min_value_of(agent, child(s.heap, ref, move[1], move[2]),
                            depth + 1, s.alpha, s.beta))

\* the for-loop of _max_value over valid_moves[lo .. hi] from the state s:
\* the first half of the moves, then the second half
max_loop(agent, ref, depth, valid_moves, lo, hi, s) ==
    IF lo > hi \/ s.cut THEN s
    ELSE IF lo = hi THEN max_body(agent, ref, depth, valid_moves[lo], s)
    ELSE max_loop(agent, ref, depth, valid_moves, (lo + hi) \div 2 + 1, hi,
                  max_loop(agent, ref, depth, valid_moves,
                           lo, (lo + hi) \div 2, s))

\* _max_value below its terminal test, with valid_moves computed
max_moves(agent, heap, ref, depth, alpha, beta, valid_moves) ==
    IF valid_moves = <<>>
    THEN passed(open_node(heap, depth, -inf, alpha, beta),
                min_value_of(agent, child(heap, ref, -1, -1),
                             depth + 1, alpha, beta))
    ELSE max_loop(agent, ref, depth, valid_moves, 1, Len(valid_moves),
                  open_node(heap, depth, -inf, alpha, beta))

\* MinimaxAgent._max_value(board, depth, alpha, beta)
max_value(agent, heap, ref, depth, alpha, beta) ==
    on_turn(heap[ref].current_player = agent.color,
            IF is_terminal(agent, heap[ref], depth)
            THEN leaf_value(agent, heap, ref, depth)
            ELSE max_moves(agent, heap, ref, depth, alpha, beta,
                           get_valid_moves(heap[ref])))

\* the rest of the loop body of _min_value once the child returned r:
\* best_score = min(best_score, score); beta = min(beta, best_score);
\* if beta <= alpha: break
min_scored(s, move, r) ==
    with_child(s, r, move,
               Min(s.score, r.score),
               s.alpha,
               Min(s.beta, Min(s.score, r.score)),
               Min(s.beta, Min(s.score, r.score)) <= s.alpha)

\* the body of the for-loop of _min_value that hands its own depth to its
\* children
min_body_same_depth(agent, ref, depth, move, s) ==
    min_scored(s, move,
               max_value_of(agent, child(s.heap, ref, move[1], move[2]),
                            depth, s.alpha, s.beta))

\* the body of the for-loop of _min_value for one move: copy, play, search
min_body(agent, ref, depth, move, s) ==
    min_scored(s, move,
               max_value_of(agent, child(s.heap, ref, move[1], move[2]),
                            depth + 1, s.alpha, s.beta))

\* the for-loop of _min_value over valid_moves[lo .. hi] from the state s:
\* the first half of the moves, then the second half
min_loop(agent, ref, depth, valid_moves, lo, hi, s) ==
    IF lo > hi \/ s.cut THEN s
    ELSE IF lo = hi THEN min_body(agent, ref, depth, valid_moves[lo], s)
    ELSE min_loop(agent, ref, depth, valid_moves, (lo + hi) \div 2 + 1, hi,
                  min_loop(agent, ref, depth, valid_moves,
                           lo, (lo + hi) \div 2, s))

\* _min_value below its terminal test, with valid_moves computed
min_moves(agent, heap, ref, depth, alpha, beta, valid_moves) ==
    IF valid_moves = <<>>
    THEN passed(open_node(heap, depth, inf, alpha, beta),
                max_value_of(agent, child(heap, ref, -1, -1),
                             depth + 1, alpha, beta))
    ELSE min_loop(agent, ref, depth, valid_moves, 1, Len(valid_moves),
                  open_node(heap, depth, inf, alpha, beta))

\* MinimaxAgent._min_value(board, depth, alpha, beta)
min_value(agent, heap, ref, depth, alpha, beta) ==
    on_turn(heap[ref].current_player = Opponent(agent.color),
            IF is_terminal(agent, heap[ref], depth)
            THEN leaf_value(agent, heap, ref, depth)
            ELSE min_moves(agent, heap, ref, depth, alpha, beta,
                           get_valid_moves(heap[ref])))

\* the orders random.shuffle is tried with: the list as it is, reversed,
\* and turned by half its length
Shuffles == {"same", "reversed", "turned"}

\* the first k entries of seq in the given order
RECURSIVE reordered(_, _, _)
reordered(seq, order, k) ==
    IF k = 0 THEN <<>>
    ELSE Append(reordered(seq, order, k - 1),
                IF order = "same" THEN seq[k]
                ELSE IF order = "reversed" THEN seq[Len(seq) + 1 - k]
                ELSE seq[((k - 1 + Len(seq) \div 2) % Len(seq)) + 1])

\* a shuffle that also swaps the coordinates of every move
shuffle_transposed(seq, order) ==
    [i \in 1 .. Len(seq) |->
        <<reordered(seq, order, Len(seq))[i][2],
          reordered(seq, order, Len(seq))[i][1]>>]

\* valid_moves after random.shuffle(valid_moves)
shuffle(seq, order) == reordered(seq, order, Len(seq))

\* the rest of the loop body of _get_move where an equal score replaces the
\* best move
root_scored_last_best(s, move, r) ==
    [best_move |-> IF r.score >= s.score THEN move ELSE s.best_move,
     scores    |-> Append(s.scores, r.score),
     score     |-> Max(s.score, r.score),
     cut       |-> FALSE,
     heap      |-> release(r.heap, Len(s.heap)),
     nodes     |-> s.nodes + r.nodes,
     deepest   |-> Max(s.deepest, r.deepest),
     expanded  |-> Max(s.expanded, r.expanded),
     aligned   |-> s.aligned /\ r.aligned,
     accepted  |-> s.accepted /\ r.accepted,
     sided     |-> s.sided /\ r.sided]

\* the rest of the loop body of _get_move once the child returned r: score
\* is best_score, scores the score of every move so far
\* if score > best_score: best_score = score; best_move = move
root_scored(s, move, r) ==
    [best_move |-> IF r.score > s.score THEN move ELSE s.best_move,
     scores    |-> Append(s.scores, r.score),
     score     |-> Max(s.score, r.score),
     cut       |-> FALSE,
     heap      |-> release(r.heap, Len(s.heap)),
     nodes     |-> s.nodes + r.nodes,
     deepest   |-> Max(s.deepest, r.deepest),
     expanded  |-> Max(s.expanded, r.expanded),
     aligned   |-> s.aligned /\ r.aligned,
     accepted  |-> s.accepted /\ r.accepted,
     sided     |-> s.sided /\ r.sided]

\* the body of the for-loop of _get_move that calls _max_value on the copy
root_body_max_first(agent, move, s) ==
    root_scored(s, move,
                max_value_of(agent, child(s.heap, 1, move[1], move[2]),
                             1, -inf, inf))

\* the body of the for-loop of _get_move for one move: copy, play, search
root_body(agent, move, s) ==
    root_scored(s, move,
                min_value_of(agent, child(s.heap, 1, move[1], move[2]),
                             1, -inf, inf))

\* the for-loop of _get_move over valid_moves[lo .. hi] from the state s:
\* the first half of the moves, then the second half; this loop has no
\* break, so cut stays FALSE
RECURSIVE root_loop(_, _, _, _, _)
root_loop(agent, valid_moves, lo, hi, s) ==
    IF lo > hi \/ s.cut THEN s
    ELSE IF lo = hi THEN root_body(agent, valid_moves[lo], s)
    ELSE root_loop(agent, valid_moves, (lo + hi) \div 2 + 1, hi,
                   root_loop(agent, valid_moves, lo, (lo + hi) \div 2, s))

\* a call of get_move that did not search and returns one of `moves`
no_search(heap, moves) ==
    [moves |-> moves, fallback |-> FALSE, scores |-> <<>>, heap |-> heap,
     nodes |-> 0, deepest |-> 0, expanded |-> 0, aligned |-> TRUE,
     accepted |-> TRUE, sided |-> TRUE]

\* the state of the root loop before the first move
root_start(heap) ==
    [best_move |-> None, scores |-> <<>>, score |-> -inf, cut |-> FALSE,
     heap |-> heap, nodes |-> 0, deepest |-> 0, expanded |-> 0,
     aligned |-> TRUE, accepted |-> TRUE, sided |-> TRUE]

\* what _get_move returns after its loop ended in the state s: moves are
\* the moves it may return, the random fallback if no move was chosen
searched(shuffled, s) ==
    [moves    |-> IF s.best_move = None
                  THEN {random_choice(shuffled, r) : r \in RandomValues}
                  ELSE {s.best_move},
     fallback |-> s.best_move = None,
     scores   |-> s.scores,
     heap     |-> s.heap,
     nodes    |-> s.nodes,
     deepest  |-> s.deepest,
     expanded |-> s.expanded,
     aligned  |-> s.aligned,
     accepted |-> s.accepted,
     sided    |-> s.sided]

\* the root loop of _get_move over the shuffled moves and its return
search_shuffled(agent, heap, shuffled) ==
    searched(shuffled,
             root_loop(agent, shuffled, 1, Len(shuffled), root_start(heap)))

\* the search of _get_move: shuffle, root loop and the random fallback
minimax_search(agent, heap, valid_moves, order) ==
    search_shuffled(agent, heap, shuffle(valid_moves, order))

\* MinimaxAgent._get_move that searches when it is not the agent's turn
minimax_get_move_any_turn(agent, heap, order) ==
    LET valid_moves == get_valid_moves(heap[1])
    IN  IF valid_moves = <<>> THEN no_search(heap, {PASS})
        ELSE minimax_search(agent, heap, valid_moves, order)

\* MinimaxAgent._get_move that returns None when there is no legal move
minimax_get_move_none_for_no_move(agent, heap, order) ==
    IF heap[1].current_player # agent.color THEN no_search(heap, {None})
    ELSE LET valid_moves == get_valid_moves(heap[1])
         IN  IF valid_moves = <<>> THEN no_search(heap, {None})
             ELSE minimax_search(agent, heap, valid_moves, order)

\* MinimaxAgent._get_move(board) for the live board heap[1] and the
\* shuffle giving `order`
minimax_get_move(agent, heap, order) ==
    IF heap[1].current_player # agent.color THEN no_search(heap, {None})
    ELSE LET valid_moves == get_valid_moves(heap[1])
         IN  IF valid_moves = <<>> THEN no_search(heap, {PASS})
             ELSE minimax_search(agent, heap, valid_moves, order)

\* the agent classes
Minimax == "MinimaxAgent"
Random == "RandomAgent"

\* agent._get_move(board): RandomAgent reads the board and copies nothing
agent_get_move(agent, heap, order) ==
    IF agent.class = Random
    THEN no_search(heap, {random_agent_get_move(heap[1], agent.color, r) :
                             r \in RandomValues})
    ELSE minimax_get_move(agent, heap, order)

(***************************************************************************)
(* The caller.                                                             *)
(***************************************************************************)
\* the single-stone ko in the corner: White's last move takes (0,0)
KoOpening ==
    << <<0, 0>>, <<1, 0>>, <<0, 2>>, PASS, <<1, 1>>, <<0, 1>> >>
\* a three-stone black group touching (1,1) twice: White's last move takes it
GroupOpening ==
    << <<0, 0>>, <<0, 2>>, <<0, 1>>, <<2, 0>>, <<1, 0>>, <<1, 1>> >>
\* a stone and then two passes
PassOpening ==
    << <<1, 1>>, PASS, PASS >>
\* two black stones that close off the corner (0,0), one white stone
CornerOpening ==
    << <<0, 1>>, <<2, 2>>, <<1, 0>> >>
\* Black fills the board but for two corners while White passes: White is
\* left without a legal move
NoMoveLine ==
    [i \in 1 .. 2 * (Size * Size - 2) - 1 |->
        IF i % 2 = 1
        THEN <<((i + 1) \div 2) \div Size, ((i + 1) \div 2) % Size>>
        ELSE PASS]
\* a stone, two passes, and a stone again
ResumeLine ==
    << <<1, 1>>, PASS, PASS, <<0, 0>> >>
\* the corner closed off by Black, then a second white stone
RevivalLine ==
    << <<0, 1>>, <<2, 2>>, <<1, 0>>, <<1, 1>> >>
Openings == {KoOpening, GroupOpening}
\* the sequences of moves a caller may follow
Lines ==
    Openings \cup {PassOpening, CornerOpening, ResumeLine, RevivalLine}
\* the sequences of moves after which an agent is asked for a move
AgentLines == {KoOpening, GroupOpening, NoMoveLine}

IsPrefix(s, t) == Len(s) <= Len(t) /\ SubSeq(t, 1, Len(s)) = s

\* the coordinates a caller passes: every point, the pass sentinel and
\* points off each edge
Inputs ==
    Coords \cup {PASS, <<-1, 0>>, <<0, -1>>, <<Size, 0>>, <<0, Size>>}

\* whether the modelled caller makes the call play_move(x, y) after the
\* moves h: anything in the first MaxFree moves, then only along a line,
\* then anything for MaxExtra moves more after an opening
MayCall(h, x, y) ==
    \/ Len(h) < MaxFree
    \/ \E o \in Lines :
          /\ Len(h) < Len(o)
          /\ IsPrefix(Append(h, <<x, y>>), o)
    \/ \E o \in Openings :
          /\ IsPrefix(o, h)
          /\ Len(h) < Len(o) + MaxExtra

(***************************************************************************)
(* State.                                                                  *)
(***************************************************************************)
VARIABLES board, current_player, ko_point, move_history, captured_stones,
          pass_count, arg, ret, prev, passes_in_a_row, asked, queried

vars == <<board, current_player, ko_point, move_history, captured_stones,
          pass_count, arg, ret, prev, passes_in_a_row, asked, queried>>

\* the GoBoard object
self ==
    [board           |-> board,
     current_player  |-> current_player,
     ko_point        |-> ko_point,
     move_history    |-> move_history,
     captured_stones |-> captured_stones,
     pass_count      |-> pass_count]

SetBoard(b) ==
    /\ board'           = b.board
    /\ current_player'  = b.current_player
    /\ ko_point'        = b.ko_point
    /\ move_history'    = b.move_history
    /\ captured_stones' = b.captured_stones
    /\ pass_count'      = b.pass_count

\* no agent
NoAgent ==
    [class |-> "None", color |-> EMPTY, evaluator |-> "None",
     search_depth |-> 0]

\* the value of asked when no agent was asked since the last move of the
\* caller
NotAsked ==
    [agent |-> NoAgent, order |-> "same", before |-> NewBoard,
     applied |-> FALSE, move |-> None, fallback |-> FALSE,
     scores |-> <<>>, nodes |-> 0, deepest |-> 0, expanded |-> 0,
     aligned |-> TRUE, accepted |-> TRUE, sided |-> TRUE]

\* the value of queried when the last call was not a query
NoQuery == [op |-> "none", x |-> -1, y |-> -1, color |-> EMPTY]

Init ==
    /\ board           = NewBoard.board
    /\ current_player  = NewBoard.current_player
    /\ ko_point        = NewBoard.ko_point
    /\ move_history    = NewBoard.move_history
    /\ captured_stones = NewBoard.captured_stones
    /\ pass_count      = NewBoard.pass_count
    /\ arg  = None
    /\ ret  = TRUE
    /\ prev = NewBoard
    /\ passes_in_a_row = 0
    /\ asked = NotAsked
    /\ queried = NoQuery

\* a call board.play_move(x, y)
PlayMove(x, y) ==
    /\ MayCall(move_history, x, y)
    /\ \E r \in {play_move(self, x, y)} :
           /\ SetBoard(r.b)
           /\ ret' = r.ret
    /\ arg'  = <<x, y>>
    /\ prev' = self
    /\ passes_in_a_row' = IF <<x, y>> = PASS THEN passes_in_a_row + 1 ELSE 0
    /\ queried' = NoQuery
    /\ UNCHANGED asked

\* a call board.reset()
Reset ==
    /\ SetBoard(NewBoard)
    /\ arg'  = None
    /\ ret'  = TRUE
    /\ prev' = NewBoard
    /\ passes_in_a_row' = 0
    /\ queried' = NoQuery
    /\ UNCHANGED asked

Next ==
    \/ \E p \in Inputs : PlayMove(p[1], p[2])
    \/ Reset

Spec == Init /\ [][Next]_vars

\* one iteration of the game loop, for every value of the random source;
\* a None move is not played
GameStep ==
    /\ ~is_game_over(self)
    /\ \E move \in {loop_move(self, r) : r \in RandomValues} :
          IF move # None
          THEN /\ \E res \in {play_move(self, move[1], move[2])} :
                     /\ SetBoard(res.b)
                     /\ ret' = res.ret
               /\ arg'  = move
               /\ prev' = self
               /\ passes_in_a_row' =
                     IF move = PASS THEN passes_in_a_row + 1 ELSE 0
          ELSE /\ UNCHANGED <<board, current_player, ko_point, move_history,
                             captured_stones, pass_count, passes_in_a_row>>
               /\ arg'  = None
               /\ ret'  = FALSE
               /\ prev' = self
    /\ UNCHANGED <<asked, queried>>

\* the game is over and the next one starts: board = GoBoard(board_size)
NewGame ==
    /\ is_game_over(self)
    /\ SetBoard(NewBoard)
    /\ arg'  = None
    /\ ret'  = TRUE
    /\ prev' = NewBoard
    /\ passes_in_a_row' = 0
    /\ UNCHANGED <<asked, queried>>

NextGame ==
    \/ GameStep
    \/ NewGame

\* the games played by play_games / agent_vs_agent without UI
SpecGame == Init /\ [][NextGame]_vars

\* the search depths the agents are built with
SearchDepths == {1, 2, 3}

\* the agents: StoneCountAgent and LibertyCountAgent of either colour and
\* every depth, RandomAgent of either colour
Agents ==
    {[class |-> Minimax, color |-> c, evaluator |-> e, search_depth |-> d] :
        c \in {BLACK, WHITE}, e \in {StoneCount, LibertyCount},
        d \in SearchDepths}
    \cup {[class |-> Random, color |-> c, evaluator |-> "None",
           search_depth |-> 0] : c \in {BLACK, WHITE}}

\* whether the agent is asked for a move after the moves h: after the
\* beginning of a line, and an agent that looks more than two moves ahead
\* only where the limit on the number of moves leaves room for that
MayAsk(agent, h, order) ==
    /\ \E o \in AgentLines : IsPrefix(h, o)
    /\ agent.search_depth > 1 => Len(h) + 2 >= (Size * Size) \div 2
    /\ agent.search_depth > 2 => order = "same"

\* a caller plays the next move of a line
FollowLine(x, y) ==
    /\ \E o \in AgentLines : IsPrefix(Append(move_history, <<x, y>>), o)
    /\ \E res \in {play_move(self, x, y)} :
           /\ SetBoard(res.b)
           /\ ret' = res.ret
    /\ arg'  = <<x, y>>
    /\ prev' = self
    /\ passes_in_a_row' = IF <<x, y>> = PASS THEN passes_in_a_row + 1 ELSE 0
    /\ asked' = NotAsked
    /\ UNCHANGED queried

\* a call agent.get_move(board) on the live board; the board is object 1
\* of the heap and is afterwards what the call left there
GetMove(agent, order) ==
    /\ asked.agent = NoAgent
    /\ MayAsk(agent, move_history, order)
    /\ \E res \in {agent_get_move(agent, <<self>>, order)} :
          \E move \in res.moves :
             /\ SetBoard(res.heap[1])
             /\ asked' = [agent    |-> agent,
                          order    |-> order,
                          before   |-> self,
                          applied  |-> FALSE,
                          move     |-> move,
                          fallback |-> res.fallback,
                          scores   |-> res.scores,
                          nodes    |-> res.nodes,
                          deepest  |-> res.deepest,
                          expanded |-> res.expanded,
                          aligned  |-> res.aligned,
                          accepted |-> res.accepted,
                          sided    |-> res.sided]
    /\ UNCHANGED <<arg, ret, prev, passes_in_a_row, queried>>

\* the rest of an iteration of the game loop, after the agent of the loop
\* answered: if move: board.play_move(*move)
ApplyMove ==
    /\ asked.agent # NoAgent
    /\ ~asked.applied
    /\ ~is_game_over(asked.before)
    /\ asked' = [asked EXCEPT !.applied = TRUE]
    /\ UNCHANGED queried
    /\ IF asked.move # None
       THEN /\ \E res \in {play_move(self, asked.move[1], asked.move[2])} :
                  /\ SetBoard(res.b)
                  /\ ret' = res.ret
            /\ arg'  = asked.move
            /\ prev' = self
            /\ passes_in_a_row' =
                  IF asked.move = PASS THEN passes_in_a_row + 1 ELSE 0
       ELSE UNCHANGED <<board, current_player, ko_point, move_history,
                        captured_stones, pass_count, arg, ret, prev,
                        passes_in_a_row>>

NextAgent ==
    \/ \E p \in Coords \cup {PASS} : FollowLine(p[1], p[2])
    \/ \E agent \in Agents : \E order \in Shuffles : GetMove(agent, order)
    \/ ApplyMove

\* agents asked for a move in the positions of the lines
SpecAgent == Init /\ [][NextAgent]_vars

\* whether a query is made after the moves h: in the positions of the lines
MayQuery(h) == \E o \in Lines : IsPrefix(h, o)

\* a call of the query op on the board, with the arguments (x, y) and
\* color where it has them: the object is afterwards what the call left
Query(op, x, y, color) ==
    /\ MayQuery(move_history)
    /\ SetBoard(after_query(op, self, x, y, color))
    /\ queried' = [op |-> op, x |-> x, y |-> y, color |-> color]
    /\ prev' = self
    /\ UNCHANGED <<arg, ret, passes_in_a_row, asked>>

NextQuery ==
    \/ \E p \in Inputs : PlayMove(p[1], p[2])
    \/ \E p \in Coords : \E color \in {BLACK, WHITE} :
          Query("would_be_suicide", p[1], p[2], color)
    \/ \E p \in Inputs : Query("is_valid_move", p[1], p[2], EMPTY)
    \/ \E op \in Queries \ {"would_be_suicide", "is_valid_move"} :
          Query(op, -1, -1, EMPTY)

\* calls of play_move and, in between, queries
SpecQuery == Init /\ [][NextQuery]_vars

TypeOK ==
    /\ board \in [Coords -> {EMPTY, BLACK, WHITE}]
    /\ current_player \in {BLACK, WHITE}
    /\ ko_point \in Coords \cup {None}
    /\ pass_count \in Nat
    /\ ret \in BOOLEAN

(***************************************************************************)
(* The rules of Go stated on the grid, without the program's flood fills.  *)
(***************************************************************************)
Adjacent(p, q) ==
    \/ p[1] = q[1] /\ (p[2] = q[2] + 1 \/ q[2] = p[2] + 1)
    \/ p[2] = q[2] /\ (p[1] = q[1] + 1 \/ q[1] = p[1] + 1)

\* the points next to each point of the board
Neighbours == [p \in Coords |-> {q \in Coords : Adjacent(p, q)}]

\* S grown by the points of colour `color` that are joined to its newest
\* points F
RECURSIVE Grow(_, _, _, _)
Grow(bd, color, S, F) ==
    LET N == {q \in UNION {Neighbours[p] : p \in F} :
                 bd[q] = color /\ q \notin S}
    IN  IF N = {} THEN S ELSE Grow(bd, color, S \cup N, N)

\* the least set of points that contains S and every point of colour
\* `color` next to one of its points
Closure(bd, color, S) == Grow(bd, color, S, S)

\* the group of the stone at p: the stones joined to p by a path of stones
\* of its colour
GroupOf(bd, p) == Closure(bd, bd[p], {p})

\* the empty points next to a stone of G
LibertiesOf(bd, G) ==
    {q \in UNION {Neighbours[p] : p \in G} : bd[q] = EMPTY}

\* the last call was play_move with a coordinate that is not the pass
Placing == arg # None /\ arg # PASS
\* the last call was a play_move that returned True
Completed == arg # None /\ ret
\* the last call put a stone on the grid
Placed == Placing /\ ret

Mover == prev.current_player

\* the grid before the last call with the mover's stone written at arg
WithStone == [prev.board EXCEPT ![arg] = Mover]

\* opponent stones of groups next to the placed stone that have no liberty
\* once the stone is on the grid
Dead ==
    {q \in Coords :
        /\ WithStone[q] = Opponent(Mover)
        /\ LibertiesOf(WithStone, GroupOf(WithStone, q)) = {}
        /\ \E n \in GroupOf(WithStone, q) : Adjacent(n, arg)}

\* placing `color` at the empty point p leaves its group without a liberty
\* and takes the last liberty of no opponent group next to p
SuicideAt(bd, p, color) ==
    LET placed == [bd EXCEPT ![p] = color]
    IN  /\ LibertiesOf(placed, GroupOf(placed, p)) = {}
        /\ \A n \in Coords :
              (Adjacent(n, p) /\ placed[n] = Opponent(color))
                 => LibertiesOf(placed, GroupOf(placed, n)) # {}

\* the object after the completed moves h, played on a new board
RECURSIVE Replay(_)
Replay(h) ==
    IF h = <<>> THEN NewBoard
    ELSE LET m == h[Len(h)]
         IN  play_move(Replay(SubSeq(h, 1, Len(h) - 1)), m[1], m[2]).b

\* the ko point in force before the last completed move of prev
KoBeforeLast ==
    IF prev.move_history = <<>> THEN None
    ELSE Replay(SubSeq(prev.move_history, 1,
                       Len(prev.move_history) - 1)).ko_point

RECURSIVE TrailingPasses(_)
TrailingPasses(h) ==
    IF h = <<>> THEN 0
    ELSE IF h[Len(h)] # PASS THEN 0
    ELSE 1 + TrailingPasses(SubSeq(h, 1, Len(h) - 1))

(***************************************************************************)
(* Claims.                                                                 *)
(***************************************************************************)

\* C1: a play_move on a coordinate that is not the pass and for which
\* is_valid_move is false returns False and leaves grid, current_player,
\* ko_point, move_history, captured_stones and pass_count unchanged.
C1_RejectedMoveChangesNothing ==
    (Placing /\ ~is_valid_move(prev, arg[1], arg[2]))
        => (ret = FALSE /\ self = prev)

\* C2: for a coordinate that is not the pass, play_move returns True exactly
\* when is_valid_move was true in the state it was called in, and then the
\* point holds the mover's colour and the grid is no longer the prior grid.
C2_LegalitySoundness ==
    Placing =>
        /\ ret <=> is_valid_move(prev, arg[1], arg[2])
        /\ ret => /\ prev.board[arg] = EMPTY
                  /\ board[arg] = Mover
                  /\ board # prev.board

C2_Witness ==
    /\ Placed
    /\ board[arg] = Mover
    /\ \E p \in Coords : ~is_valid_move(prev, p[1], p[2])

\* C3: when a placement leaves adjacent opponent groups without a liberty,
\* every stone of these groups is removed, the mover is credited with
\* exactly the number of stones removed, the opponent's total is unchanged
\* and every other point keeps its value (the placed point holds the stone).
C3_CaptureCorrectness ==
    (Placed /\ Dead # {}) =>
        /\ \A q \in Dead : board[q] = EMPTY
        /\ captured_stones[Mover] =
               prev.captured_stones[Mover] + Cardinality(Dead)
        /\ captured_stones[Opponent(Mover)] =
               prev.captured_stones[Opponent(Mover)]
        /\ \A q \in Coords \ Dead : board[q] = WithStone[q]

\* a group of several stones that touches the placed stone twice is taken
C3_Witness ==
    /\ Placed
    /\ Cardinality(Dead) >= 2
    /\ Cardinality({q \in Dead : Adjacent(q, arg)}) >= 2
    /\ \A q \in Dead : GroupOf(WithStone, q) = Dead
    /\ captured_stones[Mover] = prev.captured_stones[Mover] + Cardinality(Dead)

\* C4: whenever ko_point is a point p, is_valid_move(p) is false, and the
\* play_move(p) that follows is rejected.
C4_KoEnforced ==
    /\ ko_point # None => ~is_valid_move(self, ko_point[1], ko_point[2])
    /\ (Placing /\ prev.ko_point # None /\ arg = prev.ko_point)
          => ret = FALSE /\ board = prev.board

\* the recapture was tried at the ko point, would have taken a stone, and
\* was rejected
C4_Witness ==
    /\ Placing
    /\ prev.ko_point # None
    /\ arg = prev.ko_point
    /\ ~would_be_suicide(prev.board, arg[1], arg[2], Mover)
    /\ ret = FALSE

\* C5: one completed move (placement or pass) after ko_point was p,
\* ko_point is not p any more and p is a valid move whenever it is empty
\* and not suicide; an empty point that is not suicide is only ever rejected
\* for being the ko point of the state it is played in, so a placement at p
\* made then is accepted.
C5_KoRelease ==
    /\ (Completed /\ prev.ko_point # None) =>
          /\ ko_point # prev.ko_point
          /\ (/\ board[prev.ko_point] = EMPTY
              /\ ~SuicideAt(board, prev.ko_point, current_player))
                => is_valid_move(self, prev.ko_point[1], prev.ko_point[2])
    /\ (/\ Placing /\ ~ret /\ arg \in Coords
        /\ prev.board[arg] = EMPTY
        /\ ~SuicideAt(prev.board, arg, Mover))
          => arg = prev.ko_point
    /\ (/\ Placing /\ arg = KoBeforeLast
        /\ prev.board[arg] = EMPTY
        /\ ~SuicideAt(prev.board, arg, Mover))
          => ret

\* the point that was the ko point one completed move earlier is played
\* and accepted
C5_Witness ==
    /\ Placed
    /\ arg = KoBeforeLast
    /\ prev.ko_point = None
    /\ board[arg] = Mover

\* C6: ko_point is None or one empty point of the board; a ko_point in force
\* after a completed move was computed by that move, a placement that took
\* exactly one stone, at that point; a rejected call leaves it as it was.
\* So a ko_point never outlives the completed move that follows it.
C6_KoPointOfLastMove ==
    /\ ko_point # None => ko_point \in Coords /\ board[ko_point] = EMPTY
    /\ (ko_point # None) => arg # None
    /\ (ko_point # None /\ Completed) =>
          /\ arg \in Coords
          /\ prev.board[ko_point] = Opponent(Mover)
          /\ captured_stones[Mover] = prev.captured_stones[Mover] + 1
          /\ ko_point # prev.ko_point
    /\ (arg # None /\ ~ret) => ko_point = prev.ko_point

\* a ko point was in force and the following completed move cleared it
C6_Witness ==
    /\ Completed
    /\ prev.ko_point # None
    /\ ko_point = None

\* C7: after a placement, ko_point is the captured point if the move took
\* exactly one stone and the group of the placed stone has exactly one
\* liberty; otherwise ko_point is None.
C7_KoSettingRule ==
    Placed =>
        LET taken == {q \in Coords : prev.board[q] = Opponent(Mover)
                                      /\ board[q] = EMPTY}
            libs  == LibertiesOf(board, GroupOf(board, arg))
        IN  IF Cardinality(taken) = 1 /\ Cardinality(libs) = 1
            THEN ko_point \in taken
            ELSE ko_point = None

C7_Witness ==
    /\ Placed
    /\ ko_point # None
    /\ prev.board[ko_point] = Opponent(Mover)
    /\ LibertiesOf(board, GroupOf(board, arg)) = {ko_point}

\* C8: at an empty point that is not the ko point, a placement by the side
\* to move is rejected exactly when the stone's group would have no liberty
\* and no adjacent opponent group would be left without a liberty.
C8_SuicideRule ==
    /\ \A p \in Coords :
          (board[p] = EMPTY /\ p # ko_point) =>
              (is_valid_move(self, p[1], p[2])
                  <=> ~SuicideAt(board, p, current_player))
    /\ (Placing /\ arg \in Coords
        /\ prev.board[arg] = EMPTY /\ arg # prev.ko_point)
          => (ret <=> ~SuicideAt(prev.board, arg, Mover))

\* a stone played where it has no liberty of its own, accepted because it
\* captures
C8_Witness ==
    /\ Placed
    /\ LibertiesOf(WithStone, GroupOf(WithStone, arg)) = {}
    /\ Dead # {}
    /\ board[arg] = Mover

\* C9: after two play_move(-1,-1) calls with no other play_move call
\* between them, pass_count >= 2 and is_game_over() is true.
C9_TwoPassesEndGame ==
    passes_in_a_row >= 2 => pass_count >= 2 /\ is_game_over(self)

\* two passes in a row on a grid that holds a stone, before the move limit
C9_Witness ==
    /\ passes_in_a_row = 2
    /\ \E p \in Coords : board[p] # EMPTY
    /\ Len(move_history) <= (Size * Size) \div 2
    /\ is_game_over(self)

\* C10: pass_count equals the number of pass sentinels at the end of
\* move_history, whatever play_move calls were made, rejected ones included.
C10_PassCountIsTrailingPasses ==
    pass_count = TrailingPasses(move_history)

\* the number of stones of colour c on the grid bd
Stones(bd, c) == Cardinality({p \in Coords : bd[p] = c})

\* C11: a play_move that returns True hands the turn to the other colour,
\* one that returns False leaves current_player as it was; so current_player
\* is BLACK exactly when the length of move_history is even.
C11_TurnAlternation ==
    /\ Completed => current_player = Opponent(prev.current_player)
    /\ (arg # None /\ ~ret) => current_player = prev.current_player
    /\ current_player \in {BLACK, WHITE}
    /\ current_player = BLACK <=> Len(move_history) % 2 = 0

\* a rejected call made when it is White's turn
C11_Witness ==
    /\ Placing /\ ~ret
    /\ current_player = WHITE
    /\ Len(move_history) % 2 = 1

\* C12: a play_move that returns True appends exactly its coordinate (the
\* pass sentinel for a pass) to move_history, a rejected one appends
\* nothing, and the entries already there stay as they are; only reset()
\* empties the history.
C12_HistoryAppendOnly ==
    /\ Completed => move_history = Append(prev.move_history, arg)
    /\ (arg # None /\ ~ret) => move_history = prev.move_history
    /\ arg = None => move_history = <<>>

\* a call was rejected after moves had been recorded, and they are all there
C12_Witness ==
    /\ Placing /\ ~ret
    /\ Len(prev.move_history) >= 2
    /\ move_history = prev.move_history

\* C13: play_move(-1,-1) returns True in every state, also when the game is
\* over; it adds 1 to pass_count, appends (-1,-1) to move_history, hands the
\* turn over, sets ko_point to None and leaves grid and captured_stones.
C13_PassContract ==
    /\ play_move(self, -1, -1).ret
    /\ arg = PASS =>
          /\ ret
          /\ pass_count = prev.pass_count + 1
          /\ move_history = Append(prev.move_history, PASS)
          /\ current_player = Opponent(prev.current_player)
          /\ ko_point = None
          /\ board = prev.board
          /\ captured_stones = prev.captured_stones

\* a pass made when the game was already over, on a grid with stones
C13_Witness ==
    /\ arg = PASS /\ ret
    /\ is_game_over(prev)
    /\ prev.pass_count >= 1
    /\ \E p \in Coords : board[p] # EMPTY

\* criterion (b) of C14 for the colour c
Dominates(b, c) ==
    LET total == Stones(b.board, BLACK) + Stones(b.board, WHITE)
    IN  /\ 3 * total >= Size * Size
        /\ 5 * Stones(b.board, c) > 3 * total
        /\ 2 * count_territory(b.board)[c]
              > 3 * count_territory(b.board)[Opponent(c)]

C15_EmptyBoardNotOver ==
    /\ arg = None => ~is_game_over(self)
    /\ (\A p \in Coords : board[p] = EMPTY) =>
          (is_game_over(self) =>
              (pass_count >= 2 \/ Len(move_history) > (Size * Size) \div 2))

\* an empty grid after a call, and the game is not over
C15_Witness ==
    /\ \A p \in Coords : board[p] = EMPTY
    /\ arg # None
    /\ move_history # <<>>
    /\ ~is_game_over(self)

RowMajorBefore(p, q) == p[1] < q[1] \/ (p[1] = q[1] /\ p[2] < q[2])

\* the middle point of the board, (4, 4) on the 9x9 board
Centre == <<Size \div 2, Size \div 2>>

\* C17: get_valid_moves() lists, in row-major order and without duplicates,
\* exactly the points for which is_valid_move is true; on a new board
\* these are all size*size points; play_move on the middle point of a new
\* board succeeds, leaves White to move and one black stone on the grid.
C17_ValidMoves ==
    LET vm == get_valid_moves(self)
    IN  /\ \A i \in 1 .. Len(vm) - 1 : RowMajorBefore(vm[i], vm[i + 1])
        /\ {vm[i] : i \in 1 .. Len(vm)}
              = {p \in Coords : is_valid_move(self, p[1], p[2])}
        /\ arg = None => Len(vm) = Size * Size
        /\ (arg = Centre /\ prev = NewBoard) =>
              /\ ret
              /\ current_player = WHITE
              /\ count_stones(board) = [c \in {BLACK, WHITE} |->
                                           IF c = BLACK THEN 1 ELSE 0]

\* an empty point is left out of the list, with points listed before and
\* after it
C17_Witness ==
    LET vm == get_valid_moves(self)
    IN  \E p \in Coords :
           /\ board[p] = EMPTY
           /\ \A i \in 1 .. Len(vm) : vm[i] # p
           /\ \E i \in 1 .. Len(vm) : RowMajorBefore(vm[i], p)
           /\ \E i \in 1 .. Len(vm) : RowMajorBefore(p, vm[i])

\* the maximal connected region of empty points that holds the empty point p
Region(bd, p) == Closure(bd, EMPTY, {p})

\* the colours of the stones next to a point of R
Border(bd, R) ==
    {bd[q] : q \in UNION {Neighbours[p] : p \in R}} \ {EMPTY}

\* the maximal connected regions of the empty points E
RECURSIVE RegionsOf(_, _)
RegionsOf(bd, E) ==
    IF E = {} THEN {}
    ELSE LET R == Region(bd, CHOOSE p \in E : TRUE)
         IN  {R} \cup RegionsOf(bd, E \ R)

\* the maximal connected regions of empty points of the grid
Regions(bd) == RegionsOf(bd, {p \in Coords : bd[p] = EMPTY})

\* the empty points whose region is bordered by stones of colour c only
Territory(bd, c) == UNION {R \in Regions(bd) : Border(bd, R) = {c}}

\* C18: count_territory() credits every maximal region of empty points, with
\* all its points, to the colour of the stones next to it if there are such
\* stones and they are of one colour, and to nobody otherwise; no point is
\* counted twice.
C18_TerritoryCount ==
    LET regions == Regions(board)
    IN  \A c \in {BLACK, WHITE} :
           count_territory(board)[c]
              = Cardinality(UNION {R \in regions : Border(board, R) = {c}})

\* a region of several points credited to one colour and a region credited
\* to nobody
C18_Witness ==
    /\ \E p \in Territory(board, BLACK) \cup Territory(board, WHITE) :
          Cardinality(Region(board, p)) >= 2
    /\ \E p \in Coords :
          /\ board[p] = EMPTY
          /\ Border(board, Region(board, p)) = {BLACK, WHITE}

\* the values of komi tried, in half points: 0, 6.5 and 7
Komi2s == {0, DefaultKomi2, 14}

\* C19: get_score(komi) is black stones + black territory for Black and
\* white stones + white territory + komi for White, and get_winner(komi) is
\* BLACK if the black score is greater, WHITE if the white score is greater
\* and EMPTY exactly when they are equal.
C19_ScoreAndWinner ==
    LET black2 == 2 * (Stones(board, BLACK)
                         + Cardinality(Territory(board, BLACK)))
        white2 == 2 * (Stones(board, WHITE)
                         + Cardinality(Territory(board, WHITE)))
    IN  \A k \in Komi2s :
           LET winner == get_winner(self, k)
           IN  /\ get_score(self, k)
                     = [black |-> black2, white |-> white2 + k]
               /\ winner = BLACK <=> black2 > white2 + k
               /\ winner = WHITE <=> white2 + k > black2
               /\ winner = EMPTY <=> black2 = white2 + k

\* stones of both colours and territory: a draw without komi, and the
\* default komi makes White the winner
C19_Witness ==
    /\ Stones(board, BLACK) > 0 /\ Stones(board, WHITE) > 0
    /\ Territory(board, BLACK) # {}
    /\ get_winner(self, 0) = EMPTY
    /\ get_winner(self, DefaultKomi2) = WHITE

\* the sizes the constructor is tried with
TrySizes == {0, 3, 8, 9, 10, 13, 18, 19, 20}

\* C20: GoBoard(size) with a size outside {9, 13, 19} raises and creates no
\* board state; with 9, 13 or 19 the grid is size x size and all EMPTY,
\* current_player is BLACK, ko_point None, move_history empty,
\* captured_stones zero and pass_count 0; the state after construction has
\* these values.
C20_Construction ==
    arg = None =>
        /\ \A size \in TrySizes :
              LET b == GoBoard_init(size)
              IN  IF size \in {9, 13, 19}
                  THEN /\ DOMAIN b.board
                             = (0 .. size - 1) \X (0 .. size - 1)
                       /\ \A p \in DOMAIN b.board : b.board[p] = EMPTY
                       /\ b.current_player = BLACK
                       /\ b.ko_point = None
                       /\ b.move_history = <<>>
                       /\ b.captured_stones[BLACK] = 0
                       /\ b.captured_stones[WHITE] = 0
                       /\ b.pass_count = 0
                  ELSE DOMAIN b = {"raised"}
        /\ \A p \in Coords : board[p] = EMPTY
        /\ current_player = BLACK
        /\ ko_point = None
        /\ move_history = <<>>
        /\ captured_stones[BLACK] = 0 /\ captured_stones[WHITE] = 0
        /\ pass_count = 0

\* a newly constructed board: 81 points for size 9, an exception for
\* size 10
C20_Witness ==
    /\ arg = None
    /\ Cardinality(DOMAIN GoBoard_init(9).board) = 81
    /\ GoBoard_init(10) = ValueError
    /\ \A p \in Coords : board[p] = EMPTY

(***************************************************************************)
(* Claims about the agents, checked under SpecAgent.  asked records the    *)
(* last call of get_move: the agent, the board before the call, the move   *)
(* returned and whether the caller has gone on to apply it.                *)
(***************************************************************************)
WasAsked == asked.agent # NoAgent

WrongTurn == WasAsked /\ asked.before.current_player # asked.agent.color

\* C21: when board.current_player differs from the agent's colour, get_move
\* of MinimaxAgent and of RandomAgent returns None, which is neither a move
\* nor the pass sentinel, and leaves the board as it was; the driver then
\* applies no move, so the board is still as it was after the iteration.
C21_WrongTurnReturnsNone ==
    WrongTurn =>
        /\ asked.move = None
        /\ asked.move # PASS
        /\ asked.move \notin Coords
        /\ self = asked.before
        /\ asked.nodes = 0

\* a MinimaxAgent asked on the other colour's turn, in a position with
\* stones on the board, and the iteration of the loop finished
C21_Witness ==
    /\ WrongTurn
    /\ asked.agent.class = Minimax
    /\ asked.applied
    /\ asked.move = None
    /\ Len(move_history) > 0
    /\ self = asked.before

OwnTurn == WasAsked /\ asked.before.current_player = asked.agent.color

\* C22: when it is the agent's turn and get_valid_moves() is empty, get_move
\* of MinimaxAgent and of RandomAgent returns the pass sentinel (-1, -1),
\* never None, and does not search.
C22_NoLegalMoveIsPass ==
    (OwnTurn /\ get_valid_moves(asked.before) = <<>>) =>
        /\ asked.move = PASS
        /\ asked.move # None
        /\ asked.nodes = 0
        /\ ~asked.fallback

\* a MinimaxAgent asked on its turn on a board with empty points, none of
\* which it may play, and answering with the pass
C22_Witness ==
    /\ OwnTurn
    /\ asked.agent.class = Minimax
    /\ get_valid_moves(asked.before) = <<>>
    /\ \E p \in Coords : asked.before.board[p] = EMPTY
    /\ asked.move = PASS

Searched ==
    /\ OwnTurn
    /\ asked.agent.class = Minimax
    /\ get_valid_moves(asked.before) # <<>>

\* the greatest and the least number of a set of integers
Greatest(S) == CHOOSE m \in S : \A n \in S : n <= m
Least(S) == CHOOSE m \in S : \A n \in S : m <= n

\* the boards one legal move after b, or the board after a pass if b has no
\* legal move
Successors(b) ==
    LET valid_moves == get_valid_moves(b)
    IN  IF valid_moves = <<>> THEN {play_move(b, -1, -1).b}
        ELSE {play_move(b, valid_moves[i][1], valid_moves[i][2]).b :
                 i \in 1 .. Len(valid_moves)}

\* the value of b at the given depth by minimax without pruning: the
\* evaluation at a terminal node, else the greatest (maximizing) or least
\* value of the successors one level deeper
RECURSIVE Minimax_value(_, _, _, _)
Minimax_value(agent, b, depth, maximizing) ==
    IF is_game_over(b) \/ depth >= agent.search_depth
    THEN evaluate(agent, b)
    ELSE LET values == {Minimax_value(agent, succ, depth + 1, ~maximizing) :
                           succ \in Successors(b)}
         IN  IF maximizing THEN Greatest(values) ELSE Least(values)

\* the number of nodes of the unpruned tree below and including b
RECURSIVE Tree_size(_, _, _)
Tree_size(agent, b, depth) ==
    IF is_game_over(b) \/ depth >= agent.search_depth THEN 1
    ELSE LET valid_moves == get_valid_moves(b)
             below(k) == Tree_size(agent,
                             play_move(b, valid_moves[k][1],
                                       valid_moves[k][2]).b, depth + 1)
             sum[k \in 0 .. Len(valid_moves)] ==
                 IF k = 0 THEN 0 ELSE sum[k - 1] + below(k)
         IN  IF valid_moves = <<>>
             THEN 1 + Tree_size(agent, play_move(b, -1, -1).b, depth + 1)
             ELSE 1 + sum[Len(valid_moves)]

\* the legal moves of the board the agent was asked on, in the order the
\* root loop went through them
AskedOrder == shuffle(get_valid_moves(asked.before), asked.order)

\* the exact minimax value of the i-th root child
ExactScore(i) ==
    Minimax_value(asked.agent,
                  play_move(asked.before, AskedOrder[i][1],
                            AskedOrder[i][2]).b,
                  1, FALSE)

\* the move exhaustive minimax chooses: the first in the order whose exact
\* value is the greatest
ExactChoice ==
    LET n == Len(AskedOrder)
        exact == [i \in 1 .. n |-> ExactScore(i)]
        best == Greatest({exact[i] : i \in 1 .. n})
        first == CHOOSE i \in 1 .. n :
                    /\ exact[i] = best
                    /\ \A j \in 1 .. i - 1 : exact[j] # best
    IN  AskedOrder[first]

\* C23: for every board, evaluator, search depth and root order, the score
\* _min_value(child, 1, -inf, +inf) the pruned search finds for a root child
\* is the exact minimax value of that child, and the move _get_move returns
\* is the move exhaustive minimax chooses with the same depth limit,
\* terminal test, pass handling and tie-break.
C23_AlphaBetaEquivalence ==
    (Searched /\ ~asked.applied) =>
        /\ Len(asked.scores) = Len(AskedOrder)
        /\ \A i \in 1 .. Len(AskedOrder) : asked.scores[i] = ExactScore(i)
        /\ asked.move = ExactChoice

\* a search of depth 3 that pruned: it visited fewer nodes than the
\* unpruned tree has, and the root children do not all have the same value
C23_Witness ==
    /\ Searched
    /\ ~asked.applied
    /\ asked.agent.search_depth = 3
    /\ asked.nodes < Tree_size(asked.agent, asked.before, 0) - 1
    /\ \E i, j \in 1 .. Len(asked.scores) : asked.scores[i] # asked.scores[j]
    /\ asked.move = ExactChoice

\* C24: when it is the agent's turn and there is a legal move,
\* MinimaxAgent._get_move returns the first move, in the shuffled order,
\* whose score is the greatest score of all legal moves (a later move with
\* an equal score does not replace it), and the random fallback is never
\* taken: every score is finite, so the first move already beats -inf.
C24_RootTieBreak ==
    Searched =>
        /\ ~asked.fallback
        /\ Len(asked.scores) = Len(AskedOrder)
        /\ \A i \in 1 .. Len(asked.scores) :
              -inf < asked.scores[i] /\ asked.scores[i] < inf
        /\ \E i \in 1 .. Len(asked.scores) :
              /\ asked.move = AskedOrder[i]
              /\ \A j \in 1 .. Len(asked.scores) :
                    asked.scores[j] <= asked.scores[i]
              /\ \A j \in 1 .. i - 1 : asked.scores[j] < asked.scores[i]

\* a search in which two moves share the greatest score and the returned
\* move is the earlier of them, the order being other than the list order
\* and some move scoring less than the first one tried
C24_Witness ==
    /\ Searched
    /\ asked.order # "same"
    /\ \E i, j \in 1 .. Len(asked.scores) :
          /\ i < j
          /\ asked.move = AskedOrder[i]
          /\ asked.scores[j] = asked.scores[i]
          /\ \A k \in 1 .. Len(asked.scores) :
                asked.scores[k] <= asked.scores[i]
    /\ \E k \in 1 .. Len(asked.scores) : asked.scores[k] < asked.scores[1]

\* C25: after get_move returns, the board passed in has the grid,
\* current_player, ko_point, move_history, captured_stones and pass_count
\* it had before the call, for every agent and position; every simulated
\* move was played on a copy of its own: at every node of the search the
\* number of board objects was one more than the depth, so no node worked
\* on the live board or on the board of its parent.
C25_LiveBoardUntouched ==
    (WasAsked /\ ~asked.applied) =>
        /\ board = asked.before.board
        /\ current_player = asked.before.current_player
        /\ ko_point = asked.before.ko_point
        /\ move_history = asked.before.move_history
        /\ captured_stones = asked.before.captured_stones
        /\ pass_count = asked.before.pass_count
        /\ asked.aligned

\* a search of depth 2 or more over at least ten nodes, on a board with
\* stones of both colours, that left the live board as it was
C25_Witness ==
    /\ Searched
    /\ ~asked.applied
    /\ asked.agent.search_depth >= 2
    /\ asked.deepest >= 2
    /\ asked.nodes >= 10
    /\ \E p, q \in Coords : board[p] = BLACK /\ board[q] = WHITE
    /\ self = asked.before

\* the depth arguments a node of a search of the asked agent may have
NodeDepths == 0 .. asked.agent.search_depth

\* _max_value and _min_value called on the board b at the given depth with
\* the full window
MaxNode(b, depth) == max_value(asked.agent, <<b>>, 1, depth, -inf, inf)
MinNode(b, depth) == min_value(asked.agent, <<b>>, 1, depth, -inf, inf)

\* C26: _max_value and _min_value return evaluator.evaluate(board), and
\* expand nothing, exactly when board.is_game_over() or depth >=
\* search_depth; otherwise a node without a legal move has the value of the
\* opposite function on the board after a pass at depth + 1, and a node with
\* legal moves plays them in the order of get_valid_moves() and has the
\* greatest (_max_value) or least (_min_value) of the values of the opposite
\* function on the resulting boards at depth + 1.
C26_NodeSemantics ==
    (Searched /\ ~asked.applied) =>
        \A depth \in NodeDepths :
            LET b  == asked.before
                mx == MaxNode(b, depth)
                mn == MinNode(b, depth)
                valid_moves == get_valid_moves(b)
                after(move) == play_move(b, move[1], move[2]).b
            IN  IF is_game_over(b) \/ depth >= asked.agent.search_depth
                THEN /\ mx.score = evaluate(asked.agent, b)
                     /\ mn.score = evaluate(asked.agent, b)
                     /\ mx.tried = <<>> /\ mn.tried = <<>>
                     /\ mx.nodes = 1 /\ mn.nodes = 1
                ELSE IF valid_moves = <<>>
                THEN /\ mx.tried = <<PASS>> /\ mn.tried = <<PASS>>
                     /\ mx.score = MinNode(after(PASS), depth + 1).score
                     /\ mn.score = MaxNode(after(PASS), depth + 1).score
                ELSE /\ mx.tried = valid_moves
                     /\ mn.tried = valid_moves
                     /\ mx.nodes > 1 /\ mn.nodes > 1
                     /\ mx.score =
                           Greatest({MinNode(after(valid_moves[i]),
                                             depth + 1).score :
                                        i \in 1 .. Len(valid_moves)})
                     /\ mn.score =
                           Least({MaxNode(after(valid_moves[i]),
                                          depth + 1).score :
                                     i \in 1 .. Len(valid_moves)})

\* an agent of depth 2 or more asked on a board where the game is not over:
\* the board is expanded at depth 0 and 1 and evaluated at the depth limit,
\* and the value at the limit is not the value of the expanded node
C26_Witness ==
    /\ Searched
    /\ ~asked.applied
    /\ asked.agent.search_depth >= 2
    /\ ~is_game_over(asked.before)
    /\ MaxNode(asked.before, 0).tried = get_valid_moves(asked.before)
    /\ MaxNode(asked.before, asked.agent.search_depth).nodes = 1
    /\ MaxNode(asked.before, 0).score
          # MaxNode(asked.before, asked.agent.search_depth).score

\* the number of nodes of a tree of the given height in which every node
\* has a child for every point of the board
RECURSIVE FullTree(_)
FullTree(height) ==
    IF height = 0 THEN 1 ELSE 1 + Size * Size * FullTree(height - 1)

\* C27: every get_move call returns, after finitely many nodes; along every
\* recursion path the depth argument grows by exactly 1 per level, so at
\* every node it is the number of copies made on the way from the root; no
\* depth argument exceeds search_depth and no node is expanded at depth >=
\* search_depth.
C27_SearchTerminates ==
    (WasAsked /\ asked.agent.class = Minimax) =>
        /\ asked.aligned
        /\ asked.deepest <= asked.agent.search_depth
        /\ asked.nodes > 0 => asked.expanded < asked.agent.search_depth
        /\ asked.nodes < FullTree(asked.agent.search_depth)
        /\ asked.move \in Coords \cup {PASS, None}

\* a search of depth 3 that reached depth 3 and expanded nodes at depth 2
C27_Witness ==
    /\ Searched
    /\ asked.agent.search_depth = 3
    /\ asked.deepest = 3
    /\ asked.expanded = 2
    /\ asked.aligned
    /\ asked.move \in Coords

(***************************************************************************)
(* Claims about the group queries and the evaluators, checked under Spec.  *)
(***************************************************************************)
StonePoints == {p \in Coords : board[p] # EMPTY}

\* C28: get_group(x, y) is the maximal 4-connected set of stones of one
\* colour that contains (x, y), and the empty set when (x, y) is empty or
\* off the board: it contains (x, y), only stones of that colour, every
\* stone of that colour next to one of its stones, and nothing that is not
\* joined to (x, y); the stones of a group all have that group, so two
\* stones have the same group iff a path of stones of their colour joins
\* them.  get_liberties(x, y) is the set of empty points next to a stone of
\* the group and count_liberties(x, y) is its size.
C28_GroupsAndLiberties ==
    /\ \A p \in Inputs \ StonePoints :
          /\ get_group(board, p[1], p[2]) = {}
          /\ get_liberties(board, p[1], p[2]) = {}
          /\ count_liberties(board, p[1], p[2]) = 0
    /\ \A p \in StonePoints :
          LET group == get_group(board, p[1], p[2])
              liberties == get_liberties(board, p[1], p[2])
          IN  /\ p \in group
              /\ \A s \in group : board[s] = board[p]
              /\ \A s \in group : \A q \in Neighbours[s] :
                    board[q] = board[p] => q \in group
              /\ group = GroupOf(board, p)
              /\ \A s \in group : get_group(board, s[1], s[2]) = group
              /\ \A q \in StonePoints \ group :
                    get_group(board, q[1], q[2]) \cap group = {}
              /\ liberties = {q \in Coords :
                                 /\ board[q] = EMPTY
                                 /\ \E s \in group : Adjacent(q, s)}
              /\ count_liberties(board, p[1], p[2]) = Cardinality(liberties)

\* a group of three stones that is not a straight line, another group of
\* the other colour, and a liberty shared by two stones of the first group
C28_Witness ==
    \E p \in StonePoints :
        LET group == get_group(board, p[1], p[2])
        IN  /\ Cardinality(group) >= 3
            /\ \E s \in group : s \notin Neighbours[p] \cup {p}
            /\ \E q \in StonePoints : board[q] # board[p]
            /\ \E q \in get_liberties(board, p[1], p[2]) :
                  Cardinality(Neighbours[q] \cap group) >= 2
            /\ count_liberties(board, p[1], p[2])
                  = Cardinality(LibertiesOf(board, group))

\* C29: StoneCountEvaluator(c).evaluate(board) is (stones of c on the board
\* + captured_stones[c]) - (stones of the other colour on the board
\* + captured_stones[other colour]), for both colours c and every board.
C29_StoneCountFormula ==
    \A c \in {BLACK, WHITE} :
        stone_count_evaluate(c, self)
            = (Cardinality({p \in StonePoints : board[p] = c})
                  + captured_stones[c])
              - (Cardinality({p \in StonePoints : board[p] # c})
                  + captured_stones[Opponent(c)])

\* a board with stones of both colours after a capture, where the captures
\* change the value
C29_Witness ==
    /\ \E p \in StonePoints : board[p] = BLACK
    /\ \E p \in StonePoints : board[p] = WHITE
    /\ captured_stones[BLACK] # captured_stones[WHITE]
    /\ stone_count_evaluate(BLACK, self)
          # Stones(board, BLACK) - Stones(board, WHITE)
    /\ stone_count_evaluate(WHITE, self) = -stone_count_evaluate(BLACK, self)

\* the maximal groups of colour c on the board
GroupsOf(c) == {GroupOf(board, p) : p \in {q \in StonePoints : board[q] = c}}

\* the sum of the liberty counts of the groups in the set groups
RECURSIVE LibertySum(_)
LibertySum(groups) ==
    IF groups = {} THEN 0
    ELSE LET group == CHOOSE g \in groups : TRUE
         IN  Cardinality(LibertiesOf(board, group))
                + LibertySum(groups \ {group})

\* C30: LibertyCountEvaluator(c).evaluate(board) is (the sum over the groups
\* of c of the group's liberty count) - (the same sum for the other colour)
\* + 3 * (captured_stones[c] - captured_stones[other colour]); a group
\* counts once however many stones it has.
C30_LibertyCountFormula ==
    \A c \in {BLACK, WHITE} :
        liberty_count_evaluate(c, self)
            = LibertySum(GroupsOf(c)) - LibertySum(GroupsOf(Opponent(c)))
              + 3 * (captured_stones[c] - captured_stones[Opponent(c)])

\* groups of several stones with liberties on both sides and a capture made
C30_Witness ==
    /\ \E g \in GroupsOf(BLACK) :
          Cardinality(g) >= 2 /\ LibertiesOf(board, g) # {}
    /\ GroupsOf(WHITE) # {}
    /\ LibertySum(GroupsOf(BLACK)) # LibertySum(GroupsOf(WHITE))
    /\ captured_stones[BLACK] # captured_stones[WHITE]
    /\ liberty_count_evaluate(BLACK, self)
          # liberty_count_evaluate_per_stone(BLACK, self)

(***************************************************************************)
(* Claims about the queries, checked under SpecQuery.                      *)
(***************************************************************************)
\* the last call was a query
Queried == queried.op # "none"

\* C31: would_be_suicide, is_valid_move, get_valid_moves, is_game_over,
\* count_stones, count_territory, get_score, get_winner and the evaluate of
\* every evaluator leave the grid, current_player, ko_point, move_history,
\* captured_stones and pass_count as they were before the call.
C31_QueriesArePure ==
    Queried =>
        /\ board = prev.board
        /\ current_player = prev.current_player
        /\ ko_point = prev.ko_point
        /\ move_history = prev.move_history
        /\ captured_stones = prev.captured_stones
        /\ pass_count = prev.pass_count

\* would_be_suicide was called for an empty point where a stone of the
\* colour asked for would be suicide, so it wrote the stone on its copy and
\* walked the copy
C31_Witness ==
    /\ queried.op = "would_be_suicide"
    /\ prev.board[<<queried.x, queried.y>>] = EMPTY
    /\ would_be_suicide(prev.board, queried.x, queried.y, queried.color)
    /\ \E p \in Coords : prev.board[p] = Opponent(queried.color)
    /\ move_history # <<>>

(***************************************************************************)
(* Claims about the moves the agents return, checked under SpecAgent.      *)
(***************************************************************************)
\* the elements of the sequence seq
Range(seq) == {seq[i] : i \in 1 .. Len(seq)}

\* C32: a RandomAgent asked on its turn returns a member of
\* board.get_valid_moves() if that list is not empty and (-1, -1)
\* otherwise, so play_move on the same board accepts the move.
C32_RandomAgentMoveIsLegal ==
    (OwnTurn /\ asked.agent.class = Random) =>
        /\ get_valid_moves(asked.before) # <<>>
              => asked.move \in Range(get_valid_moves(asked.before))
        /\ get_valid_moves(asked.before) = <<>> => asked.move = PASS
        /\ play_move(asked.before, asked.move[1], asked.move[2]).ret
        /\ asked.applied => ret

\* a RandomAgent chose a stone on a board where an empty point is no legal
\* move
C32_Witness ==
    /\ OwnTurn
    /\ asked.agent.class = Random
    /\ asked.move # PASS
    /\ \E p \in Coords :
          /\ asked.before.board[p] = EMPTY
          /\ ~is_valid_move(asked.before, p[1], p[2])

\* C37: when get_move of a MinimaxAgent is called on the agent's turn and
\* searches, every play_move the search makes on a copy returns True, at
\* every _min_value node the colour to move is the opponent's and at every
\* _max_value node it is the agent's.
C37_SidesInSearch ==
    Searched =>
        /\ asked.accepted
        /\ asked.sided

\* a search three moves deep that expanded _max_value nodes, from a
\* position with stones of both colours
C37_Witness ==
    /\ Searched
    /\ asked.agent.search_depth = 3
    /\ asked.deepest = 3
    /\ asked.expanded = 2
    /\ asked.nodes > Len(get_valid_moves(asked.before)) + 1
    /\ Stones(asked.before.board, BLACK) > 0
    /\ Stones(asked.before.board, WHITE) > 0
    /\ asked.accepted
    /\ asked.sided

\* C38: a MinimaxAgent asked on its turn returns (-1, -1) or a member of
\* get_valid_moves() of the live board, so the play_move of the driver on
\* the live board returns True.
C38_MinimaxMoveIsLegal ==
    (OwnTurn /\ asked.agent.class = Minimax) =>
        /\ \/ asked.move = PASS
           \/ asked.move \in Range(get_valid_moves(asked.before))
        /\ ~asked.applied =>
              /\ self = asked.before
              /\ play_move(self, asked.move[1], asked.move[2]).ret
        /\ asked.applied => (ret /\ arg = asked.move)

\* a MinimaxAgent searched a position where an empty point is no legal
\* move and chose a stone
C38_Witness ==
    /\ Searched
    /\ asked.move # PASS
    /\ asked.move \in Range(get_valid_moves(asked.before))
    /\ \E p \in Coords :
          /\ asked.before.board[p] = EMPTY
          /\ ~is_valid_move(asked.before, p[1], p[2])

(***************************************************************************)
(* Invariants of the board under play_move, checked under Spec.            *)
(***************************************************************************)
\* C33: in every state reached from a new board by calls of play_move,
\* every group of stones on the grid, of either colour, has at least one
\* liberty, and a placement that returns True removes no stone of the
\* mover's colour.
C33_NoDeadGroups ==
    /\ \A p \in StonePoints : LibertiesOf(board, GroupOf(board, p)) # {}
    /\ \A p \in StonePoints : count_liberties(board, p[1], p[2]) >= 1
    /\ Placed => \A p \in Coords :
                    prev.board[p] = Mover => board[p] = Mover
    /\ Placed => board[arg] = Mover

\* a placement that filled the last liberty of the mover's own group and
\* stayed on the board because it captured
C33_Witness ==
    /\ Placed
    /\ LibertiesOf(WithStone, GroupOf(WithStone, arg)) = {}
    /\ Dead # {}
    /\ \E p \in Coords : prev.board[p] = Mover
    /\ \E p \in Coords : board[p] = Opponent(Mover)

\* the colour that played the i-th entry of move_history: Black plays
\* first and every entry handed the turn over
PlayedBy(i) == IF i % 2 = 1 THEN BLACK ELSE WHITE

\* the number of entries of the history h that are stones played by c
Placements(h, c) ==
    Cardinality({i \in 1 .. Len(h) : h[i] # PASS /\ PlayedBy(i) = c})

\* C34: in every reachable state and for each colour c, the number of
\* stones of c on the grid plus captured_stones[opponent of c] is the number
\* of entries of move_history that are stones played by c, and no call of
\* play_move makes a value of captured_stones smaller.
C34_StoneConservation ==
    /\ current_player = PlayedBy(Len(move_history) + 1)
    /\ \A c \in {BLACK, WHITE} :
          Stones(board, c) + captured_stones[Opponent(c)]
             = Placements(move_history, c)
    /\ arg # None =>
          \A c \in {BLACK, WHITE} :
             captured_stones[c] >= prev.captured_stones[c]

\* a capture of several stones just made: the tally of the mover grew by
\* their number and the colour that lost them has played more stones than
\* it has on the grid
C34_Witness ==
    /\ Placed
    /\ captured_stones[Mover] >= prev.captured_stones[Mover] + 2
    /\ Stones(board, Mover) > 0
    /\ Placements(move_history, Opponent(Mover))
          >= Stones(board, Opponent(Mover)) + 2

\* the last two entries of move_history are stones: two accepted
\* placements, one by each colour, with no pass between them
TwoPlacements ==
    /\ Len(move_history) >= 2
    /\ move_history[Len(move_history)] # PASS
    /\ move_history[Len(move_history) - 1] # PASS

\* the object as it was before the first of the last two accepted moves
BeforeLastTwo == Replay(SubSeq(move_history, 1, Len(move_history) - 2))

\* C35: after two accepted placements in a row, one by each colour and no
\* pass between them, the grid differs from the grid as it was before the
\* first of the two.
C35_NoImmediateRepetition ==
    TwoPlacements => board # BeforeLastTwo.board

\* the first of the two placements took a single stone and left a ko point,
\* the second was played elsewhere while the ko point was in force
C35_Witness ==
    /\ TwoPlacements
    /\ Placed
    /\ prev.ko_point # None
    /\ prev.board[prev.ko_point] = EMPTY
    /\ BeforeLastTwo.board[prev.ko_point] = Mover
    /\ board # BeforeLastTwo.board

\* len(move_history) > size * size // 2 for the history h
OverLong(h) == Len(h) > (Size * Size) \div 2

\* the history h ends with two passes
EndsWithTwoPasses(h) ==
    /\ Len(h) >= 2
    /\ h[Len(h)] = PASS
    /\ h[Len(h) - 1] = PASS

\* C36: play_move does not test is_game_over(): in a state where it is true
\* a pass is accepted and a placement is accepted exactly when
\* is_valid_move holds; an accepted placement after two passes in a row
\* leaves pass_count at 0, so that is_game_over() is then true only by the
\* dominance or the move-count criterion; and once len(move_history) is
\* greater than size*size//2, is_game_over() stays true under every call of
\* play_move.
C36_GameOverNotAbsorbing ==
    /\ (arg # None /\ is_game_over(prev)) =>
          /\ arg = PASS => ret
          /\ arg # PASS => (ret <=> is_valid_move(prev, arg[1], arg[2]))
          /\ ret => Len(move_history) = Len(prev.move_history) + 1
    /\ (Placed /\ EndsWithTwoPasses(prev.move_history)) =>
          /\ pass_count = 0
          /\ is_game_over(self) <=>
                \/ Dominates(self, BLACK) \/ Dominates(self, WHITE)
                \/ OverLong(move_history)
    /\ (arg # None /\ OverLong(prev.move_history)) =>
          /\ OverLong(move_history)
          /\ is_game_over(self)

\* the game was over by two passes only, a stone was placed and accepted,
\* and the game is not over any more
C36_Witness ==
    /\ Placed
    /\ prev.pass_count >= 2
    /\ EndsWithTwoPasses(prev.move_history)
    /\ is_game_over(prev)
    /\ ~OverLong(prev.move_history)
    /\ ~is_game_over(self)
    /\ pass_count = 0

(***************************************************************************)
(* Claims about the winner for a float komi, checked under SpecQuery.      *)
(***************************************************************************)
\* the values of komi tried: 0, 0.5, 0.75, 6.5, 7, 2^-52, 3 * 2^-53, 2^-60
\* and 1 + 2^-52
Komis == {[int |-> 0, num |-> 0, exp |-> 0], [int |-> 0, num |-> 1, exp |-> 1], [int |-> 0, num |-> 3, exp |-> 2], DefaultKomi, [int |-> 7, num |-> 0, exp |-> 0], [int |-> 0, num |-> 1, exp |-> 52], [int |-> 0, num |-> 3, exp |-> 53], [int |-> 0, num |-> 1, exp |-> 60], [int |-> 1, num |-> 1, exp |-> 52]}

\* komi is not an integer
NonInteger(komi) == komi.num > 0

\* komi is a multiple of 2^-40 below 2^10
Coarse(komi) == komi.exp <= 40 /\ komi.int < 2 ^ 10

\* the board is as __init__ leaves it
Fresh == \A p \in Coords : board[p] = EMPTY

\* C39 as stated: with the default komi 6.5 or any komi that is not an
\* integer, get_winner never returns EMPTY for any board.
C39_NeverDrawAsStated ==
    \A komi \in Komis : NonInteger(komi) => get_winner_at(self, komi) # EMPTY

\* C39, amended: with the default komi 6.5, or any komi that is not an
\* integer and is a multiple of 2^-40 below 2^10, get_winner never returns
\* EMPTY for any board, and the winner of a fresh board is WHITE with score
\* (0, 6.5).
C39_NeverDraw ==
    /\ \A komi \in Komis :
          NonInteger(komi) /\ Coarse(komi) => get_winner_at(self, komi) # EMPTY
    /\ Fresh => /\ get_winner_at(self, DefaultKomi) = WHITE
                /\ get_score_at(self, DefaultKomi) = [black |-> 0, white |-> DefaultKomi]

\* get_winner was asked on a board with stones of both colours where the
\* two integer totals are equal, and komi 6.5 makes White the winner
C39_Witness ==
    /\ queried.op = "get_winner"
    /\ \E p \in Coords : board[p] = BLACK
    /\ \E p \in Coords : board[p] = WHITE
    /\ get_score_at(self, DefaultKomi).black = get_score_at(self, DefaultKomi).white.int - DefaultKomi.int
    /\ get_winner_at(self, DefaultKomi) = WHITE

(***************************************************************************)
(* Claims about the evaluators across colours, checked under SpecQuery.    *)
(***************************************************************************)
\* C40: for every board and each of StoneCountEvaluator,
\* LibertyCountEvaluator and TerritoryEvaluator, evaluate(board) of the
\* evaluator built for BLACK is the negation of evaluate(board) of the
\* evaluator built for WHITE.
C40_ZeroSum ==
    /\ stone_count_evaluate(BLACK, self) = -stone_count_evaluate(WHITE, self)
    /\ liberty_count_evaluate(BLACK, self)
          = -liberty_count_evaluate(WHITE, self)
    /\ territory_evaluate(BLACK, self) = -territory_evaluate(WHITE, self)

\* an evaluator was asked on a board with stones of both colours and
\* captured stones where none of the three values is 0
C40_Witness ==
    /\ queried.op \in {"StoneCountEvaluator", "LibertyCountEvaluator", "TerritoryEvaluator"}
    /\ \E p \in Coords : board[p] = BLACK
    /\ \E p \in Coords : board[p] = WHITE
    /\ captured_stones[BLACK] + captured_stones[WHITE] > 0
    /\ stone_count_evaluate(BLACK, self) # 0
    /\ liberty_count_evaluate(BLACK, self) # 0
    /\ territory_evaluate(BLACK, self) # 0

=============================================================================
